---- MODULE Spec2Model ----
(***************************************************************************)
(* A model of the YouTube caption extraction service (fastube): the video  *)
(* ID extractor, the HTML entity decoder, the caption XML parser and the    *)
(* request handlers of the Express, NestJS, Netlify and browser-side        *)
(* variants.                                                                *)
(*                                                                          *)
(* Text the code inspects character by character is a sequence of           *)
(* one-character strings; an exception is a result record with ok = FALSE.  *)
(***************************************************************************)
EXTENDS Integers, Sequences, FiniteSets, TLC

VARIABLES
    upc,        \* video ID extraction: "start" | "done", or the extractor that ran
    input,      \* the parts the URL under test was built from
    url,        \* the URL handed to extractVideoID
    videoID,    \* what extractVideoID returned
    tpc,        \* entity round trip: "start" | "encoded" | "done"
    text,       \* the text t
    encoded,    \* encode(t)
    decoded,    \* what decodeHtmlEntities made of encode(t)
    decoder,    \* which decodeHtmlEntities ran: "backend" | "browser"
    ppc,        \* caption parsing: "start" | "done"
    elements,   \* the <text> elements the document was written from
    xmlData,    \* the caption XML document
    segments,   \* what the parser returned
    parser,     \* which parser ran: "regex" | "dom"
    rpc,        \* caption request: "start" | "done"
    request,    \* the body of the request: url and language
    youtube,    \* what YouTube holds for the video and which calls fail
    response,   \* the response the caller received
    epc,        \* error handling: "start" | "done"
    err,        \* the error that was thrown
    nodeEnv,    \* process.env.NODE_ENV
    errorBody,  \* the status and the body of the error response
    cpc,        \* outbound call: "start" | "pending" | "resolved" | "rejected"
    site,       \* the call site: its name and its timeout setting
    upstream,   \* what the other end does, and after how long
    clock,      \* milliseconds since the call was sent
    outcome,    \* the response, or the code of the error the call rejected with
    lpc,        \* concurrent requests: for each, "new" | "fetching" | "done"
    jobs,       \* for each request: video, log path, result
    now,        \* the clock of the server, in milliseconds
    files,      \* the logs directory: path -> lines, each with its writer
    apc,        \* language attempts: "start" | "retry" | "done"
    retry,      \* the handler, the language of the request, the video's tracks
    attempts,   \* the caption lookups made so far: language and outcome
    kpc,        \* page scraping: the step the extractor is at
    page,       \* the watch page, the language, the extractor, what fails
    loc,        \* captionUrl, the strategy that set it, the strategies run
    form,       \* the URL form: its local state and counters
    store,      \* the application store
    inflight,   \* the subtitle requests sent and not yet answered
    sent,       \* the requests sent since the last submission
    step,       \* the last handler that ran, and the store before it
    gpc,        \* the position in getSubtitlesFromYoutube
    cascade,    \* the video, the language asked for, and whether the transcript is empty
    tried,      \* the strategies started so far, and how each ended
    answer,     \* what getSubtitlesFromYoutube returned or threw
    hpc,        \* the position in the controller's getSubtitles
    ctl,        \* the controller, the request body, and how the awaited calls end
    responses,  \* the HTTP responses sent for the request
    bpc,        \* the position in getSubtitlesWithPuppeteer
    browser,    \* the headless browser: "none" | "open" | "closed"
    puppet      \* the language, the statement that fails, what it throws, and the error on its way out

urlVars == <<upc, input, url, videoID>>
textVars == <<tpc, text, encoded, decoded, decoder>>
parseVars == <<ppc, elements, xmlData, segments, parser>>
reqVars == <<rpc, request, youtube, response>>
errVars == <<epc, err, nodeEnv, errorBody>>

\* The variables of the parts that follow the caption request
callVars == <<cpc, site, upstream, clock, outcome>>
logVars == <<lpc, jobs, now, files>>
retryVars == <<apc, retry, attempts>>
locVars == <<kpc, page, loc>>
formVars == <<form, store, inflight, sent, step>>
cascVars == <<gpc, cascade, tried, answer>>
ctlVars == <<hpc, ctl, responses>>
brwVars == <<bpc, browser, puppet>>
moreVars == <<errVars, callVars, logVars, retryVars, locVars, formVars, cascVars, ctlVars, brwVars>>

\* What an action of one of these parts leaves alone
firstVars == <<urlVars, textVars, parseVars, reqVars>>
besidesErr == <<firstVars, callVars, logVars, retryVars, locVars, formVars, cascVars, ctlVars, brwVars>>
besidesCall == <<firstVars, errVars, logVars, retryVars, locVars, formVars, cascVars, ctlVars, brwVars>>
besidesLog == <<firstVars, errVars, callVars, retryVars, locVars, formVars, cascVars, ctlVars, brwVars>>
besidesRetry == <<firstVars, errVars, callVars, logVars, locVars, formVars, cascVars, ctlVars, brwVars>>
besidesLoc == <<firstVars, errVars, callVars, logVars, retryVars, formVars, cascVars, ctlVars, brwVars>>
besidesForm == <<firstVars, errVars, callVars, logVars, retryVars, locVars, cascVars, ctlVars, brwVars>>
besidesCasc == <<firstVars, errVars, callVars, logVars, retryVars, locVars, formVars, ctlVars, brwVars>>
besidesCtl == <<firstVars, errVars, callVars, logVars, retryVars, locVars, formVars, cascVars, brwVars>>
besidesBrw == <<firstVars, errVars, callVars, logVars, retryVars, locVars, formVars, cascVars, ctlVars>>

vars == <<urlVars, textVars, parseVars, reqVars, moreVars>>

\* The variables of the parts that are not running
UrlIdle ==
    /\ upc = "idle" /\ input = [shape |-> "text", id |-> <<>>, suffix |-> <<>>]
    /\ url = <<>> /\ videoID = <<"null">>

TextIdle ==
    /\ tpc = "idle" /\ text = <<>> /\ encoded = <<>> /\ decoded = <<>>
    /\ decoder = "none"

ParseIdle ==
    /\ ppc = "idle" /\ elements = <<>> /\ xmlData = <<>> /\ segments = <<>>
    /\ parser = "none"

ReqIdle ==
    /\ rpc = "idle" /\ request = <<>> /\ youtube = <<>> /\ response = <<>>

ErrIdle ==
    /\ epc = "idle" /\ err = <<>> /\ nodeEnv = "" /\ errorBody = <<>>

CallIdle ==
    /\ cpc = "idle" /\ site = <<>> /\ upstream = <<>> /\ clock = 0
    /\ outcome = ""

LogIdle == lpc = <<>> /\ jobs = <<>> /\ now = 0 /\ files = <<>>

RetryIdle == apc = "idle" /\ retry = <<>> /\ attempts = <<>>

LocIdle == kpc = "idle" /\ page = <<>> /\ loc = <<>>

FormIdle == form = <<>> /\ store = <<>> /\ inflight = {} /\ sent = <<>> /\ step = <<>>

CascIdle == gpc = "" /\ cascade = <<>> /\ tried = <<>> /\ answer = <<>>

CtlIdle == hpc = "" /\ ctl = <<>> /\ responses = <<>>

BrwIdle == bpc = "" /\ browser = "" /\ puppet = <<>>

MoreIdle == ErrIdle /\ CallIdle /\ LogIdle /\ RetryIdle /\ LocIdle /\ FormIdle /\ CascIdle /\ CtlIdle /\ BrwIdle

FirstIdle == UrlIdle /\ TextIdle /\ ParseIdle /\ ReqIdle

Null == <<"null">>

(***************************************************************************)
(* Sequence helpers                                                         *)
(***************************************************************************)
Range(s) == {s[i] : i \in 1..Len(s)}

\* s from position i on (empty past the end)
Drop(s, i) == IF i > Len(s) THEN <<>> ELSE SubSeq(s, i, Len(s))

(***************************************************************************)
(* extractVideoID: a greedy prefix, one of six markers (group 1), then the  *)
(* longest run of characters other than #, & and ? (group 2).               *)
(***************************************************************************)
\* \w of a JavaScript regular expression
WordChars ==
    {"a","b","c","d","e","f","g","h","i","j","k","l","m","n","o","p","q","r",
     "s","t","u","v","w","x","y","z","A","B","C","D","E","F","G","H","I","J",
     "K","L","M","N","O","P","Q","R","S","T","U","V","W","X","Y","Z","0","1",
     "2","3","4","5","6","7","8","9","_"}

\* One pattern element against one character: "." and "\w" are written as
\* the two-character strings ".." and "\\w", anything else is a literal.
ElemMatches(p, c) ==
    IF p = ".." THEN TRUE
    ELSE IF p = "\\w" THEN c \in WordChars
    ELSE p = c

\* The alternatives of group 1, in the order of the source.
Alternatives ==
    << <<"y","o","u","t","u","..","b","e","/">>,
       <<"v","/">>,
       <<"u","/","\\w","/">>,
       <<"e","m","b","e","d","/">>,
       <<"w","a","t","c","h","?","v","=">>,
       <<"&","v","=">> >>

\* Alternative pat matches s at position i.
AltMatchesAt(s, i, pat) ==
    /\ i + Len(pat) - 1 <= Len(s)
    /\ \A k \in 1..Len(pat) : ElemMatches(pat[k], s[i + k - 1])

\* The positions at which group 1 can start.
MarkerStarts(s) ==
    {i \in 1..Len(s) : \E a \in 1..Len(Alternatives) :
                          AltMatchesAt(s, i, Alternatives[a])}

Max(S) == CHOOSE x \in S : \A y \in S : y <= x
Min(S) == CHOOSE x \in S : \A y \in S : x <= y

\* The first alternative (in source order) that matches at i.
FirstAltAt(s, i) ==
    Alternatives[Min({a \in 1..Len(Alternatives) :
                         AltMatchesAt(s, i, Alternatives[a])})]

\* Group 2: the longest run of other characters at the head of s
RECURSIVE TokenRun(_)
TokenRun(s) ==
    IF s = <<>> \/ Head(s) \in {"#", "&", "?"} THEN <<>>
    ELSE <<Head(s)>> \o TokenRun(Tail(s))

\* url.match(regExp): the greedy ^.* leaves group 1 at the last position
\* where an alternative matches; group 2 and the trailing .* always match.
\* The result is match[2], or Null when there is no match.
RegExpGroup2(s) ==
    IF MarkerStarts(s) = {} THEN Null
    ELSE LET i == Max(MarkerStarts(s))
         IN  TokenRun(Drop(s, i + Len(FirstAltAt(s, i))))

VideoIdLength == 11

\* A plausible slip: the length test left out.
ExtractVideoID_NoLengthTest(s) == RegExpGroup2(s)

\* return match && match[2].length === 11 ? match[2] : null;
ExtractVideoID(s) ==
    LET m == RegExpGroup2(s)
    IN  IF m # Null /\ Len(m) = VideoIdLength THEN m ELSE Null

(***************************************************************************)
(* The URLs under test: a shape, an ID and what follows the ID.             *)
(***************************************************************************)
ShapePrefix ==
    [ watch  |-> <<"h","t","t","p","s",":","/","/","w","w","w",".","y","o","u","t","u","b","e",".","c","o","m","/","w","a","t","c","h","?","v","=">>,
      short  |-> <<"h","t","t","p","s",":","/","/","y","o","u","t","u",".","b","e","/">>,
      embed  |-> <<"h","t","t","p","s",":","/","/","w","w","w",".","y","o","u","t","u","b","e",".","c","o","m","/","e","m","b","e","d","/">>,
      shorts |-> <<"h","t","t","p","s",":","/","/","w","w","w",".","y","o","u","t","u","b","e",".","c","o","m","/","s","h","o","r","t","s","/">>,
      v      |-> <<"h","t","t","p","s",":","/","/","w","w","w",".","y","o","u","t","u","b","e",".","c","o","m","/","v","/">>,
      ampv   |-> <<"h","t","t","p","s",":","/","/","w","w","w",".","y","o","u","t","u","b","e",".","c","o","m","/","w","a","t","c","h","?","t","=","1","&","v","=">>,
      other  |-> <<"h","t","t","p","s",":","/","/","e","x","a","m","p","l","e",".","c","o","m","/","?","i","d","=">>,
      text   |-> <<"n","o","t"," ","a"," ","u","r","l"," ">> ]

Shapes == DOMAIN ShapePrefix

\* The four shapes the specification names, and the ones the pattern has.
SpecShapes == {"watch", "short", "embed", "shorts"}
PatternShapes == {"watch", "short", "embed", "v", "ampv"}

Ids ==
    { <<"d","Q","w","4","w","9","W","g","X","c","Q">>,
      <<"a","-","b","_","c","1","d","2","e","3","f">>,
      <<"d","Q","w","4","w","9","W","g","X","c">>,
      <<"d","Q","w","4","w","9","W","g","X","c","Q","x">>,
      <<>> }

\* Nothing, or a part that starts with ?, & or # and holds no marker.
CleanSuffixes ==
    { <<>>,
      <<"&","t","=","1","0","s">>,
      <<"?","t","=","1","0">>,
      <<"#","t","=","1","0">>,
      <<"&","f","e","a","t","u","r","e","=","y","o","u","t","u",".","b","e">> }

Suffixes ==
    CleanSuffixes \cup
    { <<"/">>,
      <<"&","v","=","a","b","c">> }

Inputs == [shape : Shapes, id : Ids, suffix : Suffixes]

BuildUrl(in) == ShapePrefix[in.shape] \o in.id \o in.suffix

UrlInit ==
    /\ upc = "start"
    /\ input \in Inputs
    /\ url = BuildUrl(input)
    /\ videoID = Null
    /\ TextIdle /\ ParseIdle /\ ReqIdle /\ MoreIdle

\* const videoId = extractVideoID(url)
Extract ==
    /\ upc = "start"
    /\ videoID' = ExtractVideoID(url)
    /\ upc' = "done"
    /\ UNCHANGED <<input, url, textVars, parseVars, reqVars, moreVars>>

UrlNext == Extract

SpecUrl == UrlInit /\ [][UrlNext]_vars

(***************************************************************************)
(* C1                                                                       *)
(***************************************************************************)
WellFormedId(id) == Len(id) = VideoIdLength /\ \A c \in Range(id) : c \in WordChars \cup {"-"}

\* An input in which no marker of the pattern occurs.
NoMarker(in) == in.shape \in {"shorts", "other", "text"} /\ in.suffix # <<"&","v","=","a","b","c">>

\* C1 as stated: for each of the four shapes watch?v=, youtu.be/, /embed/
\* and /shorts/ with a well-formed 11-character ID the extractor returns
\* the ID, and for malformed input (none of the shapes, or an ID that is
\* not 11 characters) it returns null.
C1_Original ==
    upc = "done" =>
        /\ (input.shape \in SpecShapes /\ WellFormedId(input.id)
              /\ input.suffix \in CleanSuffixes) => videoID = input.id
        /\ (input.shape \in {"other", "text"} /\ NoMarker(input)) => videoID = Null
        /\ (input.shape \in SpecShapes /\ Len(input.id) # VideoIdLength
              /\ input.suffix \in CleanSuffixes) => videoID = Null

\* C1 as amended: the ID is returned for the shapes the pattern has
\* (watch?v=, youtu.be/, /embed/, and also /v/ and &v=) when the ID is 11
\* characters long and ends the URL or is followed by a ?, & or # part with
\* no later marker; with an ID of another length the result is null, and a
\* /shorts/ URL or any other input without a marker gives null.
C1_Amended ==
    upc = "done" =>
        /\ (input.shape \in PatternShapes /\ WellFormedId(input.id)
              /\ input.suffix \in CleanSuffixes) => videoID = input.id
        /\ (input.shape \in PatternShapes /\ Len(input.id) # VideoIdLength
              /\ input.suffix \in CleanSuffixes) => videoID = Null
        /\ NoMarker(input) => videoID = Null

\* A watch?v= URL with a well-formed ID has been through the extractor.
C1_Witness ==
    /\ upc = "done"
    /\ input.shape = "watch"
    /\ WellFormedId(input.id)
    /\ input.suffix = <<"&","t","=","1","0","s">>
    /\ videoID = input.id

(***************************************************************************)
(* decodeHtmlEntities                                                       *)
(***************************************************************************)
\* s has p at position i
HasAt(s, i, p) ==
    /\ i + Len(p) - 1 <= Len(s)
    /\ SubSeq(s, i, i + Len(p) - 1) = p

\* const entities: the named references, in the order of the pattern
Entities ==
    << [name |-> <<"&","q","u","o","t",";">>, char |-> "\""],
       [name |-> <<"&","a","p","o","s",";">>, char |-> "'"],
       [name |-> <<"&","a","m","p",";">>,     char |-> "&"],
       [name |-> <<"&","l","t",";">>,         char |-> "<"],
       [name |-> <<"&","g","t",";">>,         char |-> ">"],
       [name |-> <<"&","n","b","s","p",";">>, char |-> " "] >>

EntitiesAt(s) == {e \in 1..Len(Entities) : HasAt(s, 1, Entities[e].name)}

\* text.replace(/&quot;|&apos;|&amp;|&lt;|&gt;|&nbsp;/g, ...): one scan from
\* the left; what a replacement produces is not scanned again.
RECURSIVE ReplaceNamed(_)
ReplaceNamed(s) ==
    IF s = <<>> THEN <<>>
    ELSE IF EntitiesAt(s) # {}
         THEN LET e == Entities[Min(EntitiesAt(s))]
              IN  <<e.char>> \o ReplaceNamed(Drop(s, Len(e.name) + 1))
         ELSE <<Head(s)>> \o ReplaceNamed(Tail(s))

DigitValue ==
    [c \in {"0","1","2","3","4","5","6","7","8","9"} |->
        CASE c = "0" -> 0 [] c = "1" -> 1 [] c = "2" -> 2 [] c = "3" -> 3
          [] c = "4" -> 4 [] c = "5" -> 5 [] c = "6" -> 6 [] c = "7" -> 7
          [] c = "8" -> 8 [] c = "9" -> 9]

Digits == DOMAIN DigitValue

\* \d+ : the longest run of digits at the head of s
RECURSIVE DigitRun(_)
DigitRun(s) ==
    IF s = <<>> \/ Head(s) \notin Digits THEN <<>>
    ELSE <<Head(s)>> \o DigitRun(Tail(s))

\* parseInt(dec, 10) of a run of digits
RECURSIVE ParseInt(_)
ParseInt(ds) ==
    IF ds = <<>> THEN 0
    ELSE 10 * ParseInt(SubSeq(ds, 1, Len(ds) - 1)) + DigitValue[ds[Len(ds)]]

\* String.fromCharCode(n): the UTF-16 code unit n mod 2^16.  The code units
\* of the characters used here are spelled out; any other is written U+n.
FromCharCode(n) ==
    LET u == n % 65536
    IN  CASE u = 9   -> "\t"
          [] u = 34  -> "\""
          [] u = 35  -> "#"
          [] u = 38  -> "&"
          [] u = 39  -> "'"
          [] u = 57  -> "9"
          [] u = 59  -> ";"
          [] u = 60  -> "<"
          [] u = 62  -> ">"
          [] u = 99  -> "c"
          [] u = 108 -> "l"
          [] u = 116 -> "t"
          [] OTHER   -> "U+" \o ToString(u)

\* The length of the numeric reference &#ddd; at the head of s, 0 if none.
NumericAt(s) ==
    IF HasAt(s, 1, <<"&","#">>)
    THEN LET ds == DigitRun(Drop(s, 3))
         IN  IF ds # <<>> /\ HasAt(s, 3 + Len(ds), <<";">>)
             THEN Len(ds) + 3 ELSE 0
    ELSE 0

\* decoded.replace(/&#(\d+);/g, (_, dec) => String.fromCharCode(parseInt(dec, 10)))
RECURSIVE ReplaceNumeric(_)
ReplaceNumeric(s) ==
    IF s = <<>> THEN <<>>
    ELSE IF NumericAt(s) > 0
         THEN <<FromCharCode(ParseInt(SubSeq(s, 3, NumericAt(s) - 1)))>>
                 \o ReplaceNumeric(Drop(s, NumericAt(s) + 1))
         ELSE <<Head(s)>> \o ReplaceNumeric(Tail(s))

\* The backend's decodeHtmlEntities: the named pass, then the numeric pass
\* over the result of the named pass.
DecodeHtmlEntities(s) == ReplaceNumeric(ReplaceNamed(s))

\* A standard decoder of character references (a browser's text area, an XML
\* parser, he.decode): every reference is decoded in one scan and what a
\* reference produces is not scanned again.  The references modelled are
\* the five named ones of XML and the decimal numeric ones.
RECURSIVE DecodeReferences(_)
DecodeReferences(s) ==
    IF s = <<>> THEN <<>>
    ELSE IF EntitiesAt(s) \ {6} # {}
         THEN LET e == Entities[Min(EntitiesAt(s))]
              IN  <<e.char>> \o DecodeReferences(Drop(s, Len(e.name) + 1))
    ELSE IF NumericAt(s) > 0
         THEN <<FromCharCode(ParseInt(SubSeq(s, 3, NumericAt(s) - 1)))>>
                 \o DecodeReferences(Drop(s, NumericAt(s) + 1))
         ELSE <<Head(s)>> \o DecodeReferences(Tail(s))

TextAreaValue(s) == DecodeReferences(s)

\* The browser-side decodeHtmlEntities: the text area, then the named pass.
DecodeHtmlEntitiesBrowser(s) == ReplaceNamed(TextAreaValue(s))

\* encode: each of & < > " ' replaced by its entity.
EncodeChar(c) ==
    CASE c = "&"  -> <<"&","a","m","p",";">>
      [] c = "<"  -> <<"&","l","t",";">>
      [] c = ">"  -> <<"&","g","t",";">>
      [] c = "\"" -> <<"&","q","u","o","t",";">>
      [] c = "'"  -> <<"&","#","3","9",";">>
      [] OTHER    -> <<c>>

RECURSIVE Encode(_)
Encode(s) == IF s = <<>> THEN <<>> ELSE EncodeChar(Head(s)) \o Encode(Tail(s))

(***************************************************************************)
(* parseSubtitles, getSubtitlesFromUrl and enhanceSubtitleItems             *)
(***************************************************************************)
\* The least position from `from` on at which s has p, 0 if there is none
Find(s, p, from) ==
    LET S == {i \in from..Len(s) : HasAt(s, i, p)}
    IN  IF S = {} THEN 0 ELSE Min(S)

\* The characters "." of a regular expression does not match
LineTerminators == {"\n", "\r"}

TextOpen == <<"<","t","e","x","t">>
TextClose == <<"<","/","t","e","x","t",">">>

\* textRegex tried at position i: <text, any characters up to the first >,
\* then the shortest run of characters other than line terminators that is
\* followed by </text>.  open is the position of the >, close that of the
\* closing tag.
TextRegexAt(s, i) ==
    IF ~HasAt(s, i, TextOpen) THEN [ok |-> FALSE]
    ELSE LET g == Find(s, <<">">>, i + Len(TextOpen))
         IN  IF g = 0 THEN [ok |-> FALSE]
             ELSE LET C == {c \in (g + 1)..Len(s) :
                              /\ HasAt(s, c, TextClose)
                              /\ \A k \in (g + 1)..(c - 1) :
                                     s[k] \notin LineTerminators}
                  IN  IF C = {} THEN [ok |-> FALSE]
                      ELSE [ok |-> TRUE, open |-> g, close |-> Min(C)]

\* startRegex and durRegex on w: name=" then one or more characters other
\* than " then ".  The value is group 1, Null when there is no match.
AttrRegex(w, name) ==
    LET key == name \o <<"=", "\"">>
        S == {i \in 1..Len(w) :
                 /\ HasAt(w, i, key)
                 /\ Find(w, <<"\"">>, i + Len(key)) > i + Len(key)}
    IN  IF S = {} THEN Null
        ELSE LET i == Min(S)
             IN  SubSeq(w, i + Len(key), Find(w, <<"\"">>, i + Len(key)) - 1)

\* match[1].replace of every < ... > with one or more characters inside
RECURSIVE StripTags(_)
StripTags(s) ==
    IF s = <<>> THEN <<>>
    ELSE IF Head(s) = "<" /\ Find(s, <<">">>, 2) > 2
         THEN StripTags(Drop(s, Find(s, <<">">>, 2) + 1))
         ELSE <<Head(s)>> \o StripTags(Tail(s))

\* he.decode
HeDecode(s) == DecodeReferences(s)

\* parseFloat of an attribute value.  The times of the documents under test
\* are whole seconds; NaN is written -1.
NaN == 0 - 1
ParseFloat(v) == IF DigitRun(v) = <<>> THEN NaN ELSE ParseInt(DigitRun(v))

\* The while loop over textRegex.exec(xmlData), from lastIndex on
RECURSIVE ParseFrom(_, _)
ParseFrom(s, from) ==
    LET S == {i \in from..Len(s) : TextRegexAt(s, i).ok}
    IN  IF S = {} THEN <<>>
        ELSE LET i == Min(S)
                 m == TextRegexAt(s, i)
                 whole == SubSeq(s, i, m.close + Len(TextClose) - 1)
                 group1 == SubSeq(s, m.open + 1, m.close - 1)
                 startMatch == AttrRegex(whole, <<"s","t","a","r","t">>)
                 durMatch == AttrRegex(whole, <<"d","u","r">>)
                 item == [text     |-> HeDecode(StripTags(group1)),
                          start    |-> ParseFloat(startMatch),
                          duration |-> ParseFloat(durMatch)]
             IN  (IF startMatch # Null /\ durMatch # Null
                  THEN <<item>> ELSE <<>>)
                     \o ParseFrom(s, m.close + Len(TextClose))

ParseSubtitles(xml) == ParseFrom(xml, 1)

\* element.getAttribute(name) on the start tag of an element
GetAttribute(tag, name) ==
    LET key == <<" ">> \o name \o <<"=", "\"">>
        i == Find(tag, key, 1)
    IN  IF i = 0 THEN Null
        ELSE DecodeReferences(
                 SubSeq(tag, i + Len(key),
                        Find(tag, <<"\"">>, i + Len(key)) - 1))

\* value || fallback
OrElse(v, fallback) == IF v = Null \/ v = <<>> THEN fallback ELSE v

\* xmlDoc.getElementsByTagName('text') mapped to { start, dur, text }, for
\* a well-formed document whose text elements hold character data only.
RECURSIVE TextElementsFrom(_, _)
TextElementsFrom(s, from) ==
    LET S == {i \in from..Len(s) :
                 /\ HasAt(s, i, TextOpen)
                 /\ i + Len(TextOpen) <= Len(s)
                 /\ s[i + Len(TextOpen)] \in {" ", ">", "/"}}
    IN  IF S = {} THEN <<>>
        ELSE LET i == Min(S)
                 g == Find(s, <<">">>, i)
                 tag == SubSeq(s, i, g)
                 empty == s[g - 1] = "/"
                 c == IF empty THEN g ELSE Find(s, TextClose, g + 1)
                 textContent == IF empty THEN <<>>
                                ELSE DecodeReferences(SubSeq(s, g + 1, c - 1))
             IN  << [start |-> OrElse(GetAttribute(tag, <<"s","t","a","r","t">>), <<"0">>),
                     dur   |-> OrElse(GetAttribute(tag, <<"d","u","r">>), <<"0">>),
                     text  |-> OrElse(textContent, <<>>)] >>
                     \o TextElementsFrom(s, c + 1)

GetSubtitlesFromUrl(xml) == TextElementsFrom(xml, 1)

\* n.toString() of a natural number
DigitChar == <<"0","1","2","3","4","5","6","7","8","9">>

RECURSIVE Decimal(_)
Decimal(n) ==
    IF n < 10 THEN <<DigitChar[n + 1]>>
    ELSE Decimal(n \div 10) \o <<DigitChar[(n % 10) + 1]>>

\* padStart(2, "0")
PadStart2(d) == IF Len(d) < 2 THEN <<"0">> \o d ELSE d

\* A formatTime that writes the seconds without taking them modulo 60
FormatTime_SecondsNotReduced(seconds) ==
    PadStart2(Decimal(seconds \div 60)) \o <<":">> \o PadStart2(Decimal(seconds))

\* formatTime
FormatTime(seconds) ==
    IF seconds = NaN THEN <<"N","a","N",":","N","a","N">>
    ELSE PadStart2(Decimal(seconds \div 60)) \o <<":">> \o PadStart2(Decimal(seconds % 60))

\* enhanceSubtitleItems
EnhanceSubtitleItems(subtitles) ==
    [i \in 1..Len(subtitles) |->
        LET item == subtitles[i]
            start == ParseFloat(item.start)
            dur == ParseFloat(item.dur)
        IN  [text           |-> DecodeHtmlEntities(item.text),
             start          |-> item.start,
             dur            |-> item.dur,
             startFormatted |-> FormatTime(start),
             end            |-> IF start = NaN \/ dur = NaN THEN NaN
                                ELSE start + dur]]

\* The texts under test: every text of up to MaxTextLen characters.
MaxTextLen == 4

TextChars == {"&", "<", ">", "\"", "'", "#", "9", ";", "l", "t"}

Texts == UNION {[1..n -> TextChars] : n \in 0..MaxTextLen}

TextInit ==
    /\ tpc = "start"
    /\ text \in Texts
    /\ encoded = <<>> /\ decoded = <<>> /\ decoder = "none"
    /\ UrlIdle /\ ParseIdle /\ ReqIdle /\ MoreIdle

EncodeText ==
    /\ tpc = "start"
    /\ encoded' = Encode(text)
    /\ tpc' = "encoded"
    /\ UNCHANGED <<text, decoded, decoder, urlVars, parseVars, reqVars, moreVars>>

\* text: decodeHtmlEntities(item.text) in the backend
DecodeBackend ==
    /\ tpc = "encoded"
    /\ decoded' = DecodeHtmlEntities(encoded)
    /\ decoder' = "backend"
    /\ tpc' = "done"
    /\ UNCHANGED <<text, encoded, urlVars, parseVars, reqVars, moreVars>>

\* text: decodeHtmlEntities(item.text) in the browser
DecodeBrowser ==
    /\ tpc = "encoded"
    /\ decoded' = DecodeHtmlEntitiesBrowser(encoded)
    /\ decoder' = "browser"
    /\ tpc' = "done"
    /\ UNCHANGED <<text, encoded, urlVars, parseVars, reqVars, moreVars>>

TextNext == EncodeText \/ DecodeBackend \/ DecodeBrowser

SpecText == TextInit /\ [][TextNext]_vars

(***************************************************************************)
(* C6                                                                       *)
(***************************************************************************)
\* C6: for every text t over a character set that includes & < > " and ',
\* decodeHtmlEntities(encode(t)) = t.
C6_RoundTrip == tpc = "done" => decoded = text

(***************************************************************************)
(* The caption documents under test                                         *)
(***************************************************************************)
MaxElements == 3

\* What a <text> element holds, as written in the document (raw) and as the
\* caption text it stands for (plain).
Contents ==
    { [raw |-> <<"H","i">>, plain |-> <<"H","i">>],
      [raw |-> <<"a"," ","&","a","m","p",";"," ","b">>, plain |-> <<"a"," ","&"," ","b">>],
      [raw |-> <<"i","t","&","#","3","9",";","s">>, plain |-> <<"i","t","'","s">>],
      [raw |-> <<"u","p","\n","d","o","w","n">>, plain |-> <<"u","p","\n","d","o","w","n">>] }

Durations == {2, 10}

\* The i-th element of a document starts at StartOf(i) seconds.
StartOf(i) == 61 * (i - 1)

Documents ==
    UNION {{[i \in 1..n |-> [start |-> StartOf(i), dur |-> f[i].dur,
                             content |-> f[i].content]] :
               f \in [1..n -> [dur : Durations, content : Contents]]} :
           n \in 0..MaxElements}

RenderElement(e) ==
    <<"<","t","e","x","t"," ","s","t","a","r","t","=","\"">> \o Decimal(e.start)
        \o <<"\""," ","d","u","r","=","\"">> \o Decimal(e.dur) \o <<"\"",">">>
        \o e.content.raw \o TextClose

RECURSIVE RenderElements(_)
RenderElements(es) ==
    IF es = <<>> THEN <<>> ELSE RenderElement(Head(es)) \o RenderElements(Tail(es))

RenderDocument(es) ==
    <<"<","t","r","a","n","s","c","r","i","p","t",">">> \o RenderElements(es)
        \o <<"<","/","t","r","a","n","s","c","r","i","p","t",">">>

ParseInit ==
    /\ ppc = "start"
    /\ elements \in Documents
    /\ xmlData = RenderDocument(elements)
    /\ segments = <<>>
    /\ parser = "none"
    /\ UrlIdle /\ TextIdle /\ ReqIdle /\ MoreIdle

\* const subtitles = parseSubtitles(subtitleResponse.data, appendLog)
ParseRegex ==
    /\ ppc = "start"
    /\ segments' = ParseSubtitles(xmlData)
    /\ parser' = "regex"
    /\ ppc' = "parsed"
    /\ UNCHANGED <<elements, xmlData, urlVars, textVars, reqVars, moreVars>>

\* getSubtitlesFromUrl once axios.get has answered with the document
ParseDom ==
    /\ ppc = "start"
    /\ segments' = GetSubtitlesFromUrl(xmlData)
    /\ parser' = "dom"
    /\ ppc' = "parsed"
    /\ UNCHANGED <<elements, xmlData, urlVars, textVars, reqVars, moreVars>>

\* enhanceSubtitleItems over items of the shape { text, start, dur }
Enhance ==
    /\ ppc = "parsed"
    /\ parser = "dom"
    /\ segments' = EnhanceSubtitleItems(segments)
    /\ ppc' = "enhanced"
    /\ UNCHANGED <<elements, xmlData, parser, urlVars, textVars, reqVars, moreVars>>

ParseNext == ParseRegex \/ ParseDom \/ Enhance

SpecParse == ParseInit /\ [][ParseNext]_vars

(***************************************************************************)
(* C5                                                                       *)
(***************************************************************************)
\* Segment i is what element i of the document says.
SegmentOfElement(i) ==
    LET sg == segments[i]
        e == elements[i]
    IN  /\ sg.text = e.content.plain
        /\ parser = "regex" => sg.start = e.start /\ sg.duration = e.dur
        /\ parser = "dom" => sg.start = Decimal(e.start) /\ sg.dur = Decimal(e.dur)
        /\ ppc = "enhanced" => sg.end = e.start + e.dur

\* C5: a document with N <text> elements, each with valid start and dur,
\* parses to exactly N segments in document order, each with the decoded
\* text of its element and end = start + dur.
C5_ParserSegments ==
    ppc \in {"parsed", "enhanced"} =>
        /\ Len(segments) = Len(elements)
        /\ \A i \in 1..Len(segments) : SegmentOfElement(i)

(***************************************************************************)
(* The caption request: what is asked, and what YouTube answers             *)
(***************************************************************************)
\* A character string that is absent (undefined), as the url of a request
\* body without one
Undefined == <<"undefined">>

\* A language code that is absent from the request body; `${language}` of a
\* template writes it as "undefined"
UndefinedLanguage == "undefined"

\* No caption track (the undefined of Array.find, the null of
\* getSubtitleTrackUrl)
NoTrack == ""

\* No video information (undefined, null)
NoVideoInfo ==
    [title |-> Undefined, channelName |-> "undefined", thumbnailUrl |-> Undefined]

\* A response without an HTTP status (the result of a hook in the browser)
\* and a response body without a message
NoStatus == 0
NoMessage == ""

VideoId == <<"d","Q","w","4","w","9","W","g","X","c","Q">>

WatchUrl == ShapePrefix.watch \o VideoId
NotAUrl == <<"n","o","t"," ","a"," ","u","r","l">>
PageUrl == <<"h","t","t","p","s",":","/","/","e","x","a","m","p","l","e",".","c","o","m","/","p","a","g","e">>

RequestUrls == {WatchUrl, NotAUrl, PageUrl, Undefined}

RequestLanguages == {"ko", "en", "xx", UndefinedLanguage}

\* The caption track lists a video can have, by language code.  An absent
\* list and an empty one are the same to every reader (captionTracks || []).
TrackLists ==
    { <<>>, <<"en">>, <<"ko">>, <<"ja">>, <<"ja", "en">>, <<"ko", "en">> }

\* The elements of the caption document of each track
TrackElements ==
    [ en |-> << [start |-> StartOf(1), dur |-> 2,
                 content |-> [raw |-> <<"H","i">>, plain |-> <<"H","i">>]],
                [start |-> StartOf(2), dur |-> 10,
                 content |-> [raw |-> <<"y","o","u"," ","&","a","m","p",";"," ","m","e">>,
                              plain |-> <<"y","o","u"," ","&"," ","m","e">>]] >>,
      ko |-> << [start |-> StartOf(1), dur |-> 2,
                 content |-> [raw |-> <<"n","e">>, plain |-> <<"n","e">>]] >>,
      ja |-> << [start |-> StartOf(1), dur |-> 2,
                 content |-> [raw |-> <<"h","a","i">>, plain |-> <<"h","a","i">>]] >> ]

\* The document YouTube serves for the track of a language
TrackDocument(lang) == RenderDocument(TrackElements[lang])

\* The calls that can fail: the download of the watch page, the download of
\* a caption document, the metadata request, the captions library, the
\* headless browser (launch failure or bot detection), and the front end's
\* request to the backend.
Calls == {"page", "caption", "meta", "library", "browser", "api"}

MaxFailures == 1

\* The title and the channel of the video as YouTube reports them
RealTitle == <<"S","o","n","g">>
RealChannel == "Artist"

\* The two versions of the utilities the service is built with: the one of
\* utils/youtubeUtils.ts and the one with the headless browser.
Builds == {"youtubeUtils", "puppeteer"}

YouTubes ==
    [ tracks       : TrackLists,
      videoDetails : BOOLEAN,       \* the player response has videoDetails
      rawUrlWorks  : BOOLEAN,       \* a URL cut out of the raw page can be fetched
      fails        : {F \in SUBSET Calls : Cardinality(F) <= MaxFailures},
      build        : Builds ]

\* array.join(sep) of texts
RECURSIVE Join(_, _)
Join(texts, sep) ==
    IF texts = <<>> THEN <<>>
    ELSE IF Len(texts) = 1 THEN texts[1]
    ELSE texts[1] \o sep \o Join(Tail(texts), sep)

\* array.map(item => item.text)
TextsOf(items) == [i \in 1..Len(items) |-> items[i].text]

\* A thrown error and a returned value
Throw(type, message) == [ok |-> FALSE, type |-> type, message |-> message]
Return(value) == [ok |-> TRUE, value |-> value]

(***************************************************************************)
(* The scraping utilities                                                   *)
(***************************************************************************)
\* captionTracks.find(languageCode === language) ||
\* captionTracks.find(languageCode === "en")
FindTrack(tracks, language) ==
    IF language \in Range(tracks) THEN language
    ELSE IF "en" \in Range(tracks) THEN "en"
    ELSE NoTrack

\* axios.get(captionUrl) for the track of a language
DownloadCaptions(y, lang) ==
    IF "caption" \in y.fails THEN Throw("AxiosError", "Request failed")
    ELSE Return(TrackDocument(lang))

\* `https://img.youtube.com/vi/${videoId}/maxresdefault.jpg`
ThumbnailOf(videoId) ==
    <<"https://img.youtube.com/vi/">> \o videoId \o <<"/maxresdefault.jpg">>

\* videoDetails.thumbnail.thumbnails[0].url of the player response
PageThumbnail == <<"(thumbnails[0].url of the page)">>

\* The videoDetails of the player response as { title, channelName,
\* thumbnailUrl }
VideoDetails ==
    [title |-> RealTitle, channelName |-> RealChannel,
     thumbnailUrl |-> PageThumbnail]

\* extractVideoInfo(html) without a player response: the title is found in
\* the raw page when the page has video details; a channelName key is not.
ExtractVideoInfo(y) ==
    [title       |-> IF y.videoDetails THEN RealTitle
                     ELSE <<"U","n","k","n","o","w","n"," ","T","i","t","l","e">>,
     channelName |-> "Unknown Channel",
     thumbnailUrl |-> IF y.videoDetails THEN PageThumbnail ELSE <<>>]

\* The body that getSubtitlesDirectly and getSubtitlesFromYouTube share:
\* the watch page, the track of the language or else of "en" (patterns 1 and
\* 3), else a timedtext URL cut out of the raw page (pattern 4, the URL of
\* the first track), the download, parseSubtitles, the text joined by line
\* breaks, and the video information.  In the build of utils/youtubeUtils.ts
\* step 6 reads the undeclared playerResponseData when finalVideoInfo is
\* null, and the error lands in the catch around the download.
ScrapeCaptions(y, language) ==
    IF "page" \in y.fails THEN Throw("AxiosError", "Request failed")
    ELSE LET target == FindTrack(y.tracks, language)
             fromRawPage == target = NoTrack /\ y.tracks # <<>>
             finalVideoInfo == IF target # NoTrack /\ y.videoDetails
                               THEN VideoDetails ELSE NoVideoInfo
         IN  IF target = NoTrack /\ ~fromRawPage
             THEN Throw("Error", "Could not find captions for video")
             ELSE IF fromRawPage /\ ~y.rawUrlWorks
             THEN Throw("Error", "Failed to download caption data")
             ELSE LET got == DownloadCaptions(y, IF fromRawPage THEN y.tracks[1] ELSE target)
                  IN  IF ~got.ok
                      THEN Throw("Error", "Failed to download caption data")
                      ELSE IF finalVideoInfo = NoVideoInfo /\ y.build = "youtubeUtils"
                      THEN Throw("Error", "Failed to download caption data")
                      ELSE Return([success |-> TRUE,
                                   text |-> Join(TextsOf(ParseSubtitles(got.value)), <<"\n">>),
                                   videoInfo |-> IF finalVideoInfo = NoVideoInfo
                                                 THEN ExtractVideoInfo(y)
                                                 ELSE finalVideoInfo])

\* getSubtitlesDirectly.  In the build of utils/youtubeUtils.ts the outer
\* catch calls appendLog, which is declared inside the try block, so what
\* it throws is a ReferenceError in place of the error it caught.
GetSubtitlesDirectly(y, language) ==
    LET r == ScrapeCaptions(y, language)
    IN  IF r.ok \/ y.build # "youtubeUtils" THEN r
        ELSE Throw("ReferenceError", "appendLog is not defined")

\* getSubtitlesFromYouTube.  In the build of utils/youtubeUtils.ts its first
\* statement calls appendLog, which no scope declares.
GetSubtitlesFromYouTube(y, language) ==
    IF y.build = "youtubeUtils"
    THEN Throw("ReferenceError", "appendLog is not defined")
    ELSE ScrapeCaptions(y, language)

\* getSubtitlesWithPuppeteer: the browser, the page, the track of the
\* language or else of "en", the download, parseSubtitles.  utils/
\* youtubeUtils.ts does not export it, so there the call itself throws.
GetSubtitlesWithPuppeteer(y, language) ==
    IF y.build = "youtubeUtils"
    THEN Throw("TypeError", "getSubtitlesWithPuppeteer is not a function")
    ELSE IF "browser" \in y.fails THEN Throw("Error", "Bot detected")
    ELSE IF "page" \in y.fails THEN Throw("Error", "Navigation failed")
    ELSE LET target == FindTrack(y.tracks, language)
         IN  IF target = NoTrack
             THEN Throw("Error", "No caption track for the language")
             ELSE LET got == DownloadCaptions(y, target)
                  IN  IF ~got.ok THEN got
                      ELSE Return([success |-> TRUE,
                                   text |-> Join(TextsOf(ParseSubtitles(got.value)), <<"\n">>),
                                   videoInfo |-> IF y.videoDetails THEN VideoDetails
                                                 ELSE NoVideoInfo])

(***************************************************************************)
(* The Express service that tries the three utilities in turn, and the      *)
(* controller in front of it                                                *)
(***************************************************************************)
\* ...(response.data.videoInfo || { title: "", channelName: "", ... })
OrEmptyVideoInfo(info) ==
    IF info = NoVideoInfo
    THEN [title |-> <<>>, channelName |-> "", thumbnailUrl |-> <<>>]
    ELSE info

\* A test that takes a response with an empty text as well
Usable_WithEmptyText(r) == r.ok /\ r.value.success

\* if (response.success && response.data.text)
Usable(r) == r.ok /\ r.value.success /\ r.value.text # <<>>

\* The value returned for the utility that answered: its text and video
\* information, and an empty segment list.
Result(r) ==
    Return([success   |-> TRUE,
            subtitles |-> <<>>,
            text      |-> r.value.text,
            videoInfo |-> OrEmptyVideoInfo(r.value.videoInfo)])

\* The first of the three responses with a non-empty text wins
FirstUsable(puppeteerResponse, directResponse, legacyResponse) ==
    IF Usable(puppeteerResponse) THEN Result(puppeteerResponse)
    ELSE IF Usable(directResponse) THEN Result(directResponse)
    ELSE IF Usable(legacyResponse) THEN Result(legacyResponse)
    ELSE Throw("Error", "Could not find captions for video")

\* SubtitleService.getSubtitlesFromYoutube(videoId, language): the three
\* utilities in turn; a utility that throws counts as one without text.
GetSubtitlesFromYoutube_Cascade(y, language) ==
    FirstUsable(GetSubtitlesWithPuppeteer(y, language),
                GetSubtitlesDirectly(y, language),
                GetSubtitlesFromYouTube(y, language))

\* SubtitleService.getSubtitles(params)
ServiceGetSubtitles(y, params) ==
    IF ExtractVideoID(params.url) = Null
    THEN Throw("Error", "Invalid YouTube URL")
    ELSE GetSubtitlesFromYoutube_Cascade(y, params.language)

\* The data member of a response that has none
NoData == [text |-> <<>>, subtitles |-> <<>>, videoInfo |-> NoVideoInfo]

\* The response of a handler: the HTTP status code, the success flag, the
\* message, and the members of data (hasData tells whether there is one).
Response(handler, status, success, message, data) ==
    [handler   |-> handler,
     status    |-> status,
     success   |-> success,
     message   |-> message,
     hasData   |-> data # NoData,
     text      |-> data.text,
     subtitles |-> data.subtitles,
     videoInfo |-> data.videoInfo]

\* res.status(200).json(result) for the value the service returns, and
\* res.status(500).json({ success: false, message }) in the catch
RespondTo(handler, result) ==
    IF result.ok
    THEN Response(handler, 200, TRUE, NoMessage, result.value)
    ELSE Response(handler, 500, FALSE, result.message, NoData)

\* SubtitleController.getSubtitles in front of the cascading service
ControllerGetSubtitles_Cascade(y, body) ==
    IF body.url = Undefined
    THEN Response("cascade", 400, FALSE, "Please provide a YouTube URL", NoData)
    ELSE RespondTo("cascade",
             ServiceGetSubtitles(y,
                 [url |-> body.url,
                  language |-> IF body.language = UndefinedLanguage THEN "ko"
                               ELSE body.language]))

(***************************************************************************)
(* The Express service on the captions library, and its controller          *)
(***************************************************************************)
\* getSubtitles({ videoID, lang }) of youtube-captions-scraper: the items
\* { start, dur, text } of the track of exactly that language, an error when
\* the video has no such track or a request fails.
LibraryGetSubtitles(y, lang) ==
    IF y.fails \cap {"library", "page", "caption"} # {}
    THEN Throw("Error", "Request failed")
    ELSE IF lang \notin Range(y.tracks)
    THEN Throw("Error", "Could not find captions for video")
    ELSE Return([i \in 1..Len(TrackElements[lang]) |->
                    [start |-> Decimal(TrackElements[lang][i].start),
                     dur   |-> Decimal(TrackElements[lang][i].dur),
                     text  |-> HeDecode(TrackElements[lang][i].content.raw)]])

\* `Video ${videoId}`
VideoTitle(videoId) == <<"V","i","d","e","o"," ">> \o videoId

\* fetchYouTubeVideoInfo: the title and the channel scraped from the watch
\* page; the placeholders when the page has none or the request fails.
FetchYouTubeVideoInfo(y, videoId) ==
    IF "meta" \notin y.fails /\ y.videoDetails
    THEN [title |-> RealTitle, channelName |-> RealChannel,
          thumbnailUrl |-> ThumbnailOf(videoId)]
    ELSE [title |-> VideoTitle(videoId), channelName |-> "YouTube Channel",
          thumbnailUrl |-> ThumbnailOf(videoId)]

\* SubtitleService.getVideoInfo: fetchYouTubeVideoInfo, and the same
\* placeholders should it throw.
GetVideoInfo(y, videoId) == FetchYouTubeVideoInfo(y, videoId)

\* SubtitleService.getSubtitlesFromYoutube(params): the library for the
\* language, then for "en" unless the language was "en"; an empty answer
\* counts as a failure.
GetSubtitlesFromYoutube_Library(y, params) ==
    LET language == IF params.language = UndefinedLanguage THEN "en" ELSE params.language
        videoId == ExtractVideoID(params.url)
        first == LibraryGetSubtitles(y, language)
        second == LibraryGetSubtitles(y, "en")
        rawSubtitles ==
            IF first.ok /\ first.value # <<>> THEN first
            ELSE IF language = "en"
            THEN (IF first.ok
                  THEN Throw("Error", "No captions in the requested language")
                  ELSE first)
            ELSE IF ~second.ok THEN second
            ELSE IF second.value = <<>>
            THEN Throw("Error", "No English captions either")
            ELSE second
    IN  IF videoId = Null THEN Throw("Error", "Invalid YouTube URL")
        ELSE IF ~rawSubtitles.ok THEN rawSubtitles
        ELSE LET enhancedSubtitles == EnhanceSubtitleItems(rawSubtitles.value)
             IN  Return([success   |-> TRUE,
                         subtitles |-> enhancedSubtitles,
                         text      |-> Join(TextsOf(enhancedSubtitles), <<" ">>),
                         videoInfo |-> GetVideoInfo(y, videoId)])

\* body("url").isURL() of the route, for the URLs under test: a string with
\* white space, or without a dotted host name, is not a URL.
IsURL(u) == u # Undefined /\ " " \notin Range(u) /\ "." \in Range(u)

\* SubtitleController.getSubtitles that consults the validation result,
\* in front of the service on the library
ControllerGetSubtitles_Library(y, body) ==
    IF ~IsURL(body.url)
    THEN Response("library", 400, FALSE, "Please enter a valid URL", NoData)
    ELSE RespondTo("library", GetSubtitlesFromYoutube_Library(y, body))

(***************************************************************************)
(* The NestJS services                                                      *)
(***************************************************************************)
\* getSubtitleTracks: the caption tracks of the watch page
GetSubtitleTracks(y) ==
    IF "page" \in y.fails THEN Throw("Error", "Cannot get the caption list")
    ELSE Return(y.tracks)

\* getYouTubeSubtitlesThroughScraping, and the catch branch of
\* getYouTubeSubtitles: the track of exactly the language, read with the
\* DOM parser; whatever goes wrong is thrown as a NotFoundException.
GetYouTubeSubtitlesThroughScraping(y, language) ==
    LET tracks == GetSubtitleTracks(y)
    IN  IF ~tracks.ok \/ language \notin Range(tracks.value)
           \/ "caption" \in y.fails
        THEN Throw("NotFoundException", "Cannot get captions")
        ELSE Return(GetSubtitlesFromUrl(TrackDocument(language)))

\* getYouTubeSubtitles: the library, and scraping when the library throws
GetYouTubeSubtitles(y, language) ==
    LET captions == LibraryGetSubtitles(y, language)
    IN  IF captions.ok THEN captions
        ELSE GetYouTubeSubtitlesThroughScraping(y, language)

\* The NestJS getVideoInfo: oEmbed, and placeholders in Korean (written
\* here as "(video)" and "(unknown)") when the request fails.
NestGetVideoInfo(y, videoId) ==
    IF "meta" \in y.fails
    THEN [title |-> <<"(video)", " ">> \o videoId, channelName |-> "(unknown)",
          thumbnailUrl |-> ThumbnailOf(videoId)]
    ELSE [title |-> RealTitle, channelName |-> RealChannel,
          thumbnailUrl |-> ThumbnailOf(videoId)]

\* The captions of the language, then of "en" unless the language was "en"
WithEnglishFallback(y, language) ==
    LET first == GetYouTubeSubtitles(y, language)
        second == GetYouTubeSubtitles(y, "en")
    IN  IF first.ok \/ language = "en" THEN first
        ELSE IF second.ok THEN second
        ELSE Throw("NotFoundException", "No captions, and no English ones either")

\* SubtitlesService.extractSubtitles of modules/subtitles, answered through
\* the controller: 201 for a returned value, the status of the HttpException
\* otherwise.
NestExtractSubtitles(y, dto) ==
    LET requestedLanguage == IF dto.language = UndefinedLanguage THEN "ko" ELSE dto.language
        videoId == ExtractVideoID(dto.url)
        captions == WithEnglishFallback(y, requestedLanguage)
    IN  IF dto.url = Undefined
        THEN Response("nest", 500, FALSE, "Cannot read properties of undefined", NoData)
        ELSE IF videoId = Null
        THEN Response("nest", 404, FALSE, "Not a valid YouTube URL", NoData)
        ELSE IF ~captions.ok
        THEN Response("nest",
                      IF captions.type = "NotFoundException" THEN 404 ELSE 500,
                      FALSE, captions.message, NoData)
        ELSE Response("nest", 201, TRUE, NoMessage,
                      [text      |-> Join(TextsOf(captions.value), <<" ">>),
                       subtitles |-> captions.value,
                       videoInfo |-> NestGetVideoInfo(y, videoId)])

\* SAMPLE_SUBTITLES: eight hard-coded captions in Korean (the texts are
\* written here as "(sample 1)" to "(sample 8)")
SAMPLE_SUBTITLES ==
    << [start |-> <<"0">>, dur |-> <<"3",".","3","4">>, text |-> <<"(sample 1)">>],
       [start |-> <<"3",".","3","4">>, dur |-> <<"5",".","1","2">>, text |-> <<"(sample 2)">>],
       [start |-> <<"8",".","4","6">>, dur |-> <<"4",".","2","1">>, text |-> <<"(sample 3)">>],
       [start |-> <<"1","2",".","6","7">>, dur |-> <<"3",".","8","9">>, text |-> <<"(sample 4)">>],
       [start |-> <<"1","6",".","5","6">>, dur |-> <<"4",".","7","5">>, text |-> <<"(sample 5)">>],
       [start |-> <<"2","1",".","3","1">>, dur |-> <<"3",".","2","4">>, text |-> <<"(sample 6)">>],
       [start |-> <<"2","4",".","5","5">>, dur |-> <<"4",".","4","2">>, text |-> <<"(sample 7)">>],
       [start |-> <<"2","8",".","9","7">>, dur |-> <<"5",".","6","3">>, text |-> <<"(sample 8)">>] >>

\* SubtitlesService.extractSubtitles of the variant that falls back to
\* SAMPLE_SUBTITLES: when scraping fails for the language and for "en", and
\* in the outer catch as well, it returns success with the sample.
NestSampleExtractSubtitles(y, dto) ==
    LET requestedLanguage == IF dto.language = UndefinedLanguage THEN "ko" ELSE dto.language
        videoId == ExtractVideoID(dto.url)
        first == GetYouTubeSubtitlesThroughScraping(y, requestedLanguage)
        second == GetYouTubeSubtitlesThroughScraping(y, "en")
        captions == IF first.ok THEN first.value
                    ELSE IF requestedLanguage # "en" /\ second.ok THEN second.value
                    ELSE SAMPLE_SUBTITLES
    IN  IF dto.url = Undefined \/ videoId = Null
        THEN Response("nestSample", 201, TRUE, NoMessage,
                      [text      |-> Join(TextsOf(SAMPLE_SUBTITLES), <<" ">>),
                       subtitles |-> SAMPLE_SUBTITLES,
                       videoInfo |-> [title |-> <<"(sample video)">>,
                                      channelName |-> "(sample channel)",
                                      thumbnailUrl |-> <<"https://via.placeholder.com/480x360">>]])
        ELSE Response("nestSample", 201, TRUE, NoMessage,
                      [text      |-> Join(TextsOf(captions), <<" ">>),
                       subtitles |-> captions,
                       videoInfo |-> NestGetVideoInfo(y, videoId)])

(***************************************************************************)
(* The Netlify function                                                     *)
(***************************************************************************)
\* The longest run of characters outside stops at the head of s
RECURSIVE RunOutside(_, _)
RunOutside(s, stops) ==
    IF s = <<>> \/ Head(s) \in stops THEN <<>>
    ELSE <<Head(s)>> \o RunOutside(Tail(s), stops)

\* The literal alternatives of the handler's pattern, in source order
NetlifyMarkers ==
    << <<"y","o","u","t","u",".","b","e","/">>,
       <<"y","o","u","t","u","b","e",".","c","o","m","/","e","m","b","e","d","/">>,
       <<"y","o","u","t","u","b","e",".","c","o","m","/","v","/">>,
       <<"y","o","u","t","u","b","e",".","c","o","m","/","w","a","t","c","h","?","v","=">> >>

\* The head of the last alternative: youtube.com/watch? then one or more
\* characters then &v=
NetlifyWatch == <<"y","o","u","t","u","b","e",".","c","o","m","/","w","a","t","c","h","?">>

NetlifyGroup(s, from) == RunOutside(Drop(s, from), {"/", "?", "&"})

\* The positions right after a marker that starts at i and is followed by
\* a non-empty group, one set per alternative
NetlifyLiteralEnds(s, i) ==
    {i + Len(NetlifyMarkers[a]) : a \in
        {a \in 1..Len(NetlifyMarkers) :
            /\ HasAt(s, i, NetlifyMarkers[a])
            /\ NetlifyGroup(s, i + Len(NetlifyMarkers[a])) # <<>>}}

NetlifyWatchEnds(s, i) ==
    IF ~HasAt(s, i, NetlifyWatch) THEN {}
    ELSE {j + 3 : j \in
            {j \in (i + Len(NetlifyWatch) + 1)..Len(s) :
                /\ HasAt(s, j, <<"&","v","=">>)
                /\ \A k \in (i + Len(NetlifyWatch))..(j - 1) :
                       s[k] \notin LineTerminators
                /\ NetlifyGroup(s, j + 3) # <<>>}}

\* url.match(...)[1]: the leftmost match; at one position a literal
\* alternative comes before the last one, whose .+ is greedy.  At most one
\* literal alternative matches at a position.
NetlifyVideoId(s) ==
    LET S == {i \in 1..Len(s) :
                 NetlifyLiteralEnds(s, i) \cup NetlifyWatchEnds(s, i) # {}}
    IN  IF S = {} THEN Null
        ELSE LET i == Min(S)
             IN  IF NetlifyLiteralEnds(s, i) # {}
                 THEN NetlifyGroup(s, Min(NetlifyLiteralEnds(s, i)))
                 ELSE NetlifyGroup(s, Max(NetlifyWatchEnds(s, i)))

\* `${language}` of a template
LanguageText(language) == IF language = UndefinedLanguage THEN "undefined" ELSE language

\* generateDemoSubtitles: ten generated sentences in Korean (the fixed words
\* are written here as "(demo)")
GenerateDemoSubtitles(videoId, language) ==
    [i \in 1..10 |->
        [start |-> Decimal((i - 1) * 10),
         dur   |-> <<"5">>,
         text  |-> <<"(demo)", " ", LanguageText(language), " ">>
                       \o Decimal(i) \o <<" ">> \o videoId]]

\* exports.handler of functions/subtitles.js
NetlifyHandler(y, data) ==
    LET videoId == NetlifyVideoId(data.url)
        subtitles == GenerateDemoSubtitles(videoId, data.language)
    IN  IF data.url = Undefined
        THEN Response("netlify", 500, FALSE, "Cannot extract captions", NoData)
        ELSE IF videoId = Null
        THEN Response("netlify", 400, FALSE, "Not a valid YouTube URL", NoData)
        ELSE Response("netlify", 200, TRUE, NoMessage,
                      [subtitles |-> subtitles,
                       text      |-> Join(TextsOf(subtitles), <<" ">>),
                       videoInfo |-> [title |-> <<"(YouTube video)", " ", "(">> \o videoId \o <<")">>,
                                      channelName |-> "(channel name)",
                                      thumbnailUrl |-> ThumbnailOf(videoId)]])

(***************************************************************************)
(* The hooks that run in the browser                                        *)
(***************************************************************************)
\* getSubtitleTrackUrl: the track of the language, else the first track,
\* else null; null as well when the list cannot be fetched.  The track
\* stands for its URL.
GetSubtitleTrackUrl(y, languageCode) ==
    LET tracks == GetSubtitleTracks(y)
    IN  IF ~tracks.ok THEN NoTrack
        ELSE IF languageCode \in Range(tracks.value) THEN languageCode
        ELSE IF Len(tracks.value) > 0 THEN tracks.value[1]
        ELSE NoTrack

\* getYouTubeSubtitles of utils/youtubeCaptions
BrowserGetYouTubeSubtitles(y, languageCode) ==
    LET trackUrl == GetSubtitleTrackUrl(y, languageCode)
    IN  IF trackUrl = NoTrack THEN Throw("Error", "No captions in the language")
        ELSE IF "caption" \in y.fails THEN Throw("Error", "Cannot parse captions")
        ELSE Return(GetSubtitlesFromUrl(TrackDocument(trackUrl)))

\* getVideoInfo of utils/youtubeCaptions: it throws when the page cannot be
\* read; its placeholders are in Korean (written "(YouTube video)" and
\* "(channel name)").
BrowserGetVideoInfo(y, videoId) ==
    IF "meta" \in y.fails THEN Throw("Error", "Cannot get the video information")
    ELSE Return(IF y.videoDetails THEN VideoDetails
                ELSE [title |-> <<"(YouTube video)">>, channelName |-> "(channel name)",
                      thumbnailUrl |-> ThumbnailOf(videoId)])

\* convertCaptionsToSubtitleItems
ConvertCaptionsToSubtitleItems(captions) ==
    [i \in 1..Len(captions) |->
        LET start == ParseFloat(captions[i].start)
            dur == ParseFloat(captions[i].dur)
        IN  [text           |-> DecodeHtmlEntitiesBrowser(captions[i].text),
             start          |-> start,
             end            |-> start + dur,
             startFormatted |-> FormatTime(start)]]

\* The mutation of useSubtitles that fetches in the browser: captions and
\* video information in parallel; a rejected mutation has no status.
UseSubtitles(y, params) ==
    LET videoId == ExtractVideoID(params.url)
        captions == BrowserGetYouTubeSubtitles(y,
                        IF params.language = UndefinedLanguage THEN "ko" ELSE params.language)
        videoDetails == BrowserGetVideoInfo(y, videoId)
        subtitles == ConvertCaptionsToSubtitleItems(captions.value)
    IN  IF params.url = Undefined
        THEN Response("browser", NoStatus, FALSE, "Cannot read properties of undefined", NoData)
        ELSE IF videoId = Null
        THEN Response("browser", NoStatus, FALSE, "Not a valid YouTube URL", NoData)
        ELSE IF ~captions.ok \/ ~videoDetails.ok
        THEN Response("browser", NoStatus, FALSE, "Cannot extract captions", NoData)
        ELSE Response("browser", NoStatus, TRUE, NoMessage,
                      [subtitles |-> subtitles,
                       text      |-> Join(TextsOf(subtitles), <<" ">>),
                       videoInfo |-> videoDetails.value])

\* The query of useVideoInfo: the backend's video information, and a
\* hard-coded one with success: true when the request to the backend fails.
UseVideoInfo(y, videoUrl) ==
    LET videoId == IF videoUrl = Undefined THEN Null ELSE ExtractVideoID(videoUrl)
    IN  IF videoId = Null
        THEN Response("videoInfo", NoStatus, FALSE, "Not a valid video ID", NoData)
        ELSE Response("videoInfo", NoStatus, TRUE, NoMessage,
                      [subtitles |-> <<>>,
                       text      |-> <<>>,
                       videoInfo |-> IF "api" \in y.fails
                                     THEN [title |-> <<"(YouTube video)">>,
                                           channelName |-> "(channel name)",
                                           thumbnailUrl |-> ThumbnailOf(videoId)]
                                     ELSE FetchYouTubeVideoInfo(y, videoId)])

(***************************************************************************)
(* The requests under test                                                  *)
(***************************************************************************)
Requests == [url : RequestUrls, language : RequestLanguages]

ReqInit ==
    /\ rpc = "start"
    /\ request \in Requests
    /\ youtube \in YouTubes
    /\ response = <<>>
    /\ UrlIdle /\ TextIdle /\ ParseIdle /\ MoreIdle

Answer(r) ==
    /\ rpc = "start"
    /\ response' = r
    /\ rpc' = "done"
    /\ UNCHANGED <<request, youtube, urlVars, textVars, parseVars, moreVars>>

PostSubtitlesCascade == Answer(ControllerGetSubtitles_Cascade(youtube, request))
PostSubtitlesLibrary == Answer(ControllerGetSubtitles_Library(youtube, request))
PostSubtitlesNest == Answer(NestExtractSubtitles(youtube, request))
PostSubtitlesNestSample == Answer(NestSampleExtractSubtitles(youtube, request))
PostSubtitlesNetlify == Answer(NetlifyHandler(youtube, request))
MutateUseSubtitles == Answer(UseSubtitles(youtube, request))
QueryUseVideoInfo == Answer(UseVideoInfo(youtube, request.url))

ReqNext ==
    \/ PostSubtitlesCascade
    \/ PostSubtitlesLibrary
    \/ PostSubtitlesNest
    \/ PostSubtitlesNestSample
    \/ PostSubtitlesNetlify
    \/ MutateUseSubtitles
    \/ QueryUseVideoInfo

SpecReq == ReqInit /\ [][ReqNext]_vars

(***************************************************************************)
(* What the answers are held against                                        *)
(***************************************************************************)
\* The handlers that answer a caption request, and those that answer it
\* over HTTP
CaptionHandlers == {"cascade", "library", "nest", "nestSample", "netlify", "browser"}
HttpHandlers == CaptionHandlers \ {"browser"}

Answered == rpc = "done" /\ response.handler \in CaptionHandlers
AnsweredOverHttp == rpc = "done" /\ response.handler \in HttpHandlers

\* The request names a language and the URL of the video
AsksForVideo == request.url = WatchUrl /\ request.language # UndefinedLanguage

HasTrack(lang) == lang \in Range(youtube.tracks)

\* The decoded caption texts of the track of a language, and the two ways
\* of writing them as one text
PlainTexts(lang) ==
    [i \in 1..Len(TrackElements[lang]) |-> TrackElements[lang][i].content.plain]
CaptionsOf(lang) ==
    {Join(PlainTexts(lang), <<" ">>), Join(PlainTexts(lang), <<"\n">>)}

\* C2: when the video has no track for the requested language but has an
\* "en" track, and no call fails, the request ends in success and the
\* captions returned are those of the "en" track.
C2_EnglishFallback ==
    (Answered /\ AsksForVideo /\ youtube.fails = {}
        /\ ~HasTrack(request.language) /\ HasTrack("en"))
    => (response.success /\ response.text \in CaptionsOf("en"))

\* C3: when the video has neither a track for the requested language nor
\* an "en" track, the request ends in an error: the response is no success
\* and carries no captions.
C3_CaptionsNotFound ==
    (Answered /\ AsksForVideo /\ youtube.fails = {}
        /\ ~HasTrack(request.language) /\ ~HasTrack("en"))
    => (~response.success /\ ~response.hasData)

\* C4: a request whose url is a string from which no video ID can be
\* extracted is answered with HTTP status 400.
C4_InvalidUrlIs400 ==
    (AnsweredOverHttp /\ request.url # Undefined
        /\ ExtractVideoID(request.url) = Null)
    => (response.status = 400 /\ ~response.success)

\* C7: for a URL with a valid video ID, a video without captions is
\* answered with success = false and status 404, a failure while the video
\* does have the captions asked for with status 500, and no failure is
\* answered with another status than these two.
C7_FailureStatus ==
    (AnsweredOverHttp /\ AsksForVideo) =>
        /\ (youtube.fails = {} /\ youtube.tracks = <<>>)
               => (~response.success /\ response.status = 404)
        /\ (~response.success /\ HasTrack(request.language))
               => response.status = 500
        /\ ~response.success => response.status \in {404, 500}

\* C8: no response with success = true carries the hard-coded sample
\* captions or the generated demo captions.
C8_NoPlaceholderCaptions ==
    (Answered /\ response.success) =>
        /\ TextsOf(response.subtitles) # TextsOf(SAMPLE_SUBTITLES)
        /\ NetlifyVideoId(request.url) # Null =>
               TextsOf(response.subtitles) #
                   TextsOf(GenerateDemoSubtitles(NetlifyVideoId(request.url),
                                                 request.language))

\* C9: in a successful response the full text is the texts of the returned
\* segments, in order, joined by a single space or by a single newline.
C9_FullTextOfSegments ==
    (Answered /\ response.success) =>
        response.text \in {Join(TextsOf(response.subtitles), <<" ">>),
                           Join(TextsOf(response.subtitles), <<"\n">>)}

\* C10: when only the metadata request fails and the video has the track
\* asked for, the caption request still ends in success, and a title that
\* is not the video's own is the placeholder "Video <id>" with the channel
\* "YouTube Channel".
C10_MetadataBestEffort ==
    (Answered /\ AsksForVideo /\ youtube.fails = {"meta"}
        /\ youtube.videoDetails /\ HasTrack(request.language))
    => /\ response.success
       /\ response.videoInfo \in
              {[title |-> RealTitle, channelName |-> RealChannel,
                thumbnailUrl |-> response.videoInfo.thumbnailUrl],
               [title |-> VideoTitle(VideoId), channelName |-> "YouTube Channel",
                thumbnailUrl |-> response.videoInfo.thumbnailUrl]}

\* C11: when the request omits the language, the first caption lookup is
\* for "ko": for a video that has a "ko" track and an "en" track, and with
\* no call failing, the captions returned are those of the "ko" track.
C11_DefaultLanguageKo ==
    (Answered /\ request.url = WatchUrl /\ request.language = UndefinedLanguage
        /\ youtube.fails = {} /\ youtube.videoDetails
        /\ HasTrack("ko") /\ HasTrack("en"))
    => (response.success /\ response.text \in CaptionsOf("ko"))

\* C15: in every successful response for the video, videoInfo.thumbnailUrl
\* is the URL built from the video ID alone.
C15_ThumbnailFromId ==
    (Answered /\ response.success /\ request.url = WatchUrl)
    => response.videoInfo.thumbnailUrl = ThumbnailOf(VideoId)

\* C19: the captions returned are those of the track of the requested
\* language when the video has one, otherwise those of the "en" track; with
\* neither the request fails, so captions of a third language are never
\* returned.
C19_NoThirdLanguage ==
    (rpc = "done" /\ response.handler \in {"cascade", "browser"}
        /\ AsksForVideo /\ youtube.fails = {})
    => IF FindTrack(youtube.tracks, request.language) = NoTrack
       THEN ~response.success
       ELSE response.success =>
               response.text \in CaptionsOf(FindTrack(youtube.tracks, request.language))

(***************************************************************************)
(* Error responses: the global Express error handler, the catch of the      *)
(* controller and the catch of the Netlify function                         *)
(***************************************************************************)
\* An error without a statusCode, a stack or a data member
NoStatusCode == 0
NoStack == ""
NoErrorData == ""

\* err.stack of an Error created inside the service or a utility
Stacks ==
    { NoStack,
      "Error: ... at SubtitleService.getSubtitles (subtitleService.ts)",
      "ReferenceError: ... at getSubtitlesDirectly (youtubeUtils.ts)" }

\* The errors that reach a handler: statusCode, message, stack and data
AppErrors ==
    [ statusCode : {NoStatusCode, 400, 404},
      message    : {"", "Invalid YouTube URL", "Could not find captions for video"},
      stack      : Stacks,
      data       : {NoErrorData, "details"} ]

NodeEnvs == {"development", "production", "test", "undefined"}

\* What a handler sends: the status and the members of the JSON body; the
\* members a body does not have are the empty string
ErrorBody(handler, status, message, stack, data, details) ==
    [handler |-> handler, status |-> status, success |-> FALSE,
     message |-> message, stack |-> stack, data |-> data,
     details |-> details]

\* errorHandlerMiddleware(err, req, res, next)
ErrorHandlerMiddlewareBody(e, env) ==
    ErrorBody("errorHandler",
              IF e.statusCode = NoStatusCode THEN 500 ELSE e.statusCode,
              IF e.message = "" THEN "The server met an error" ELSE e.message,
              IF env = "development" THEN e.stack ELSE NoStack,
              e.data, "")

\* The error notFoundMiddleware creates and hands to next(error)
NotFoundError ==
    [statusCode |-> 404,
     message    |-> "The requested path cannot be found",
     stack      |-> "Error: ... at notFoundMiddleware (errorMiddleware.ts)",
     data       |-> NoErrorData]

\* The catch of SubtitleController.getSubtitles
ControllerCatchBody(e) ==
    ErrorBody("controller", 500,
              IF e.message = "" THEN "An error occurred while extracting" ELSE e.message,
              NoStack, NoErrorData, "")

\* The catch of the Netlify handler: a fixed error text and details
NetlifyCatchBody(e) ==
    ErrorBody("netlify", 500, "Cannot extract captions", NoStack, NoErrorData,
              e.message)

ErrInit ==
    /\ epc = "start"
    /\ err \in AppErrors
    /\ nodeEnv \in NodeEnvs
    /\ errorBody = <<>>
    /\ FirstIdle /\ CallIdle /\ LogIdle /\ RetryIdle /\ LocIdle /\ FormIdle /\ CascIdle /\ CtlIdle /\ BrwIdle

Send(body) ==
    /\ epc = "start"
    /\ errorBody' = body
    /\ epc' = "done"
    /\ UNCHANGED <<err, nodeEnv, besidesErr>>

ErrorHandlerMiddleware == Send(ErrorHandlerMiddlewareBody(err, nodeEnv))
NotFoundMiddleware == Send(ErrorHandlerMiddlewareBody(NotFoundError, nodeEnv))
ControllerCatch == Send(ControllerCatchBody(err))
NetlifyCatch == Send(NetlifyCatchBody(err))

ErrNext ==
    \/ ErrorHandlerMiddleware
    \/ NotFoundMiddleware
    \/ ControllerCatch
    \/ NetlifyCatch

SpecErr == ErrInit /\ [][ErrNext]_vars

\* C12: no error response carries a stack trace, whatever NODE_ENV is and
\* whatever error was thrown.
C12_NoStackInResponse ==
    epc = "done" => errorBody.stack = NoStack

(***************************************************************************)
(* Outbound HTTP calls and their timeouts                                   *)
(***************************************************************************)
\* The timeout of a call made without one (the default of axios, and fetch)
NoTimeout == 0

\* timeout: 15000 of the front end's axios instance
ApiTimeout == 15000

MaxClock == 20000

\* The call sites: the page fetch, the caption download and the metadata
\* fetch of each variant, and the front end's request to the backend
CallSites ==
    { [name |-> "youtubeUtils.page",    timeout |-> NoTimeout],
      [name |-> "youtubeUtils.caption", timeout |-> NoTimeout],
      [name |-> "youtubeUtils.meta",    timeout |-> NoTimeout],
      [name |-> "nest.page",            timeout |-> NoTimeout],
      [name |-> "nest.caption",         timeout |-> NoTimeout],
      [name |-> "nest.meta",            timeout |-> NoTimeout],
      [name |-> "netlify.meta",         timeout |-> NoTimeout],
      [name |-> "browser.page",         timeout |-> NoTimeout],
      [name |-> "browser.caption",      timeout |-> NoTimeout],
      [name |-> "frontend.api",         timeout |-> ApiTimeout] }

\* The other end answers, refuses the connection, or stays silent
Upstreams ==
    [kind : {"answers", "refuses", "silent"}, delay : {0, 5000, 10000, 20000}]

CallInit ==
    /\ cpc = "start"
    /\ site \in CallSites
    /\ upstream \in Upstreams
    /\ clock = 0
    /\ outcome = ""
    /\ FirstIdle /\ ErrIdle /\ LogIdle /\ RetryIdle /\ LocIdle /\ FormIdle /\ CascIdle /\ CtlIdle /\ BrwIdle

\* await axios.get(...)
CallSend ==
    /\ cpc = "start"
    /\ cpc' = "pending"
    /\ UNCHANGED <<site, upstream, clock, outcome, besidesCall>>

\* Time passes while the call is pending
CallTick ==
    /\ cpc = "pending"
    /\ clock < MaxClock
    /\ clock' = clock + 5000
    /\ UNCHANGED <<cpc, site, upstream, outcome, besidesCall>>

\* The response arrives: the promise resolves
CallReceive ==
    /\ cpc = "pending"
    /\ upstream.kind = "answers" /\ clock >= upstream.delay
    /\ cpc' = "resolved" /\ outcome' = "response"
    /\ UNCHANGED <<site, upstream, clock, besidesCall>>

\* The connection is refused: the promise rejects with a network error
CallRefused ==
    /\ cpc = "pending"
    /\ upstream.kind = "refuses" /\ clock >= upstream.delay
    /\ cpc' = "rejected" /\ outcome' = "ECONNREFUSED"
    /\ UNCHANGED <<site, upstream, clock, besidesCall>>

\* The timeout of the call expires: axios rejects with ECONNABORTED.  A
\* call without a timeout never does.
CallTimeout ==
    /\ cpc = "pending"
    /\ site.timeout # NoTimeout /\ clock >= site.timeout
    /\ cpc' = "rejected" /\ outcome' = "ECONNABORTED"
    /\ UNCHANGED <<site, upstream, clock, besidesCall>>

CallNext ==
    \/ CallSend
    \/ CallTick
    \/ CallReceive
    \/ CallRefused
    \/ CallTimeout

\* Time passes and whatever can happen to a pending call does happen
SpecCall == CallInit /\ [][CallNext]_vars /\ WF_vars(CallNext)

\* C13: a pending call whose upstream never answers ends rejected, with
\* the timeout error (ECONNABORTED), which no other failure produces.
C13_SilentUpstreamTimesOut ==
    (cpc = "pending" /\ upstream.kind = "silent")
        ~> (cpc = "rejected" /\ outcome = "ECONNABORTED")


(***************************************************************************)
(* Concurrent requests and the logs directory                               *)
(***************************************************************************)
\* Two requests in flight at once
JobIds == {1, 2}

MaxNow == 2

\* path.join(logDir, `${prefix}_${videoId}_${timestamp}...`)
LogPath(prefix, video, timestamp) == <<prefix, video, timestamp>>

NoPath == <<>>

\* A line of a file, with the request that wrote it
Line(j, content) == [by |-> j, content |-> content]

\* fs.writeFileSync(path, data): the file is created or replaced
WriteFileSync(fs, path, data) ==
    [q \in DOMAIN fs \cup {path} |-> IF q = path THEN data ELSE fs[q]]

\* fs.appendFileSync(path, data): the file is created or extended
AppendFileSync(fs, path, data) ==
    [q \in DOMAIN fs \cup {path} |->
        IF q = path
        THEN (IF path \in DOMAIN fs THEN fs[path] ELSE <<>>) \o data
        ELSE fs[q]]

\* saveHtmlLog(videoId, html): the page and its summary, named by the
\* video and the time of the call
SaveHtmlLog(fs, j, video, timestamp) ==
    WriteFileSync(
        WriteFileSync(fs, LogPath("youtube_html", video, timestamp),
                      <<Line(j, "html")>>),
        LogPath("youtube_summary", video, timestamp),
        <<Line(j, "summary")>>)

\* What a request for the video returns when it runs alone
Alone(video) == <<"captions of", video>>

LogInit ==
    /\ lpc = [j \in JobIds |-> "new"]
    /\ jobs \in [JobIds -> [videoId : {"a", "b"}, logSummaryPath : {NoPath},
                            result : {<<>>}]]
    /\ now = 0
    /\ files = <<>>
    /\ FirstIdle /\ ErrIdle /\ CallIdle /\ RetryIdle /\ LocIdle /\ FormIdle /\ CascIdle /\ CtlIdle /\ BrwIdle

\* getSubtitlesDirectly up to its first await: the log file of the request
\* is created under a name made of the video and the start time, and the
\* first messages are appended
LogBegin(j) ==
    /\ lpc[j] = "new"
    /\ lpc' = [lpc EXCEPT ![j] = "fetching"]
    /\ jobs' = [jobs EXCEPT ![j].logSummaryPath =
                    LogPath("subtitle_extraction", jobs[j].videoId, now)]
    /\ files' = AppendFileSync(
                    WriteFileSync(files, jobs'[j].logSummaryPath,
                                  <<Line(j, "start")>>),
                    jobs'[j].logSummaryPath, <<Line(j, "[1]")>>)
    /\ UNCHANGED <<now, besidesLog>>

\* The rest of the request, after the page has arrived: saveHtmlLog, more
\* messages, the result
LogFinish(j) ==
    /\ lpc[j] = "fetching"
    /\ lpc' = [lpc EXCEPT ![j] = "done"]
    /\ jobs' = [jobs EXCEPT ![j].result = Alone(jobs[j].videoId)]
    /\ files' = AppendFileSync(
                    SaveHtmlLog(files, j, jobs[j].videoId, now),
                    jobs[j].logSummaryPath, <<Line(j, "[2]")>>)
    /\ UNCHANGED <<now, besidesLog>>

\* A millisecond passes
LogTick ==
    /\ now < MaxNow
    /\ now' = now + 1
    /\ UNCHANGED <<lpc, jobs, files, besidesLog>>

LogNext ==
    \/ \E j \in JobIds : LogBegin(j)
    \/ \E j \in JobIds : LogFinish(j)
    \/ LogTick

SpecLog == LogInit /\ [][LogNext]_vars

\* C14: whatever the interleaving of two requests, each returns what it
\* returns alone, and the log file of a request holds only what that
\* request wrote: nothing of it was replaced by the other request and
\* nothing of the other request was added to it.
C14_RequestsIsolated ==
    \A j \in JobIds :
        /\ lpc[j] = "done" => jobs[j].result = Alone(jobs[j].videoId)
        /\ lpc[j] # "new" =>
              \A i \in DOMAIN files[jobs[j].logSummaryPath] :
                  files[jobs[j].logSummaryPath][i].by = j


(***************************************************************************)
(* The language attempts of one request                                     *)
(***************************************************************************)
\* The handlers that retry with "en": SubtitleService.getSubtitles of the
\* library variant, the NestJS extractSubtitles, and the controller that
\* calls getSubtitlesFromYoutube itself
RetryHandlers == {"library", "nest", "controller"}

\* const { url, language = "en" }, language || 'ko', language = "ko"
DefaultLanguage(handler) == IF handler = "library" THEN "en" ELSE "ko"

FirstLanguage(r) ==
    IF r.language = UndefinedLanguage THEN DefaultLanguage(r.handler)
    ELSE r.language

\* if (language !== "en") / if (requestedLanguage !== 'en'); the controller's
\* catch has no such test
RetriesWithEnglish(r) ==
    IF r.handler = "controller" THEN TRUE ELSE FirstLanguage(r) # "en"

Attempt(language, ok) == [language |-> language, ok |-> ok]

RetryInit ==
    /\ apc = "start"
    /\ retry \in [handler : RetryHandlers, language : RequestLanguages,
                  available : SUBSET {"ko", "en", "xx"}]
    /\ attempts = <<>>
    /\ FirstIdle /\ ErrIdle /\ CallIdle /\ LogIdle /\ LocIdle /\ FormIdle /\ CascIdle /\ CtlIdle /\ BrwIdle

\* The lookup with the language of the request.  It succeeds only for a
\* language the video has captions in, and may fail for other reasons.
FirstAttempt ==
    /\ apc = "start"
    /\ \E ok \in {b \in BOOLEAN : b => FirstLanguage(retry) \in retry.available} :
          /\ attempts' = <<Attempt(FirstLanguage(retry), ok)>>
          /\ apc' = IF ok THEN "done" ELSE "retry"
    /\ UNCHANGED <<retry, besidesRetry>>

\* The catch of the first lookup: the lookup with "en"
SecondAttempt ==
    /\ apc = "retry"
    /\ RetriesWithEnglish(retry)
    /\ \E ok \in {b \in BOOLEAN : b => "en" \in retry.available} :
          attempts' = Append(attempts, Attempt("en", ok))
    /\ apc' = "done"
    /\ UNCHANGED <<retry, besidesRetry>>

\* The catch of the first lookup when the language was "en": throw error
Rethrow ==
    /\ apc = "retry"
    /\ ~RetriesWithEnglish(retry)
    /\ apc' = "done"
    /\ UNCHANGED <<retry, attempts, besidesRetry>>

RetryNext ==
    \/ FirstAttempt
    \/ SecondAttempt
    \/ Rethrow

SpecRetry == RetryInit /\ [][RetryNext]_vars

\* C16: at most two language attempts in a request; the first is with the
\* language of the request, a second one is with "en" and is made only
\* after the first failed and when the language of the request is not "en",
\* so no language is attempted twice.
C16_AtMostTwoAttempts ==
    /\ Len(attempts) <= 2
    /\ Len(attempts) >= 1 => attempts[1].language = FirstLanguage(retry)
    /\ Len(attempts) = 2 =>
          /\ ~attempts[1].ok
          /\ attempts[1].language # "en"
          /\ attempts[2].language = "en"


(***************************************************************************)
(* The page-scraping extractors, step by step                               *)
(***************************************************************************)
\* What a pattern can find in the page: nothing, text that JSON.parse
\* rejects, or the parsed structure
Finds == {"absent", "broken", "found"}

\* The pages: the caption tracks of the video, what the pattern of
\* ytInitialPlayerResponse, of ytInitialData and of "captionTracks":[...]
\* find, whether the player response has videoDetails, and whether a URL
\* with "timedtext" stands near the first keyword, dead or working.  Such a
\* URL is that of the first track.
Pages ==
    { p \in [ tracks         : {<<>>, <<"en">>, <<"ja">>, <<"ko", "en">>},
              playerResponse : Finds,
              initialData    : {"broken", "found"},
              rawTracks      : Finds,
              videoDetails   : BOOLEAN,
              timedtext      : {"absent", "dead", "works"},
              language       : {"ko", "en"},
              fn             : {"getSubtitlesDirectly", "getSubtitlesFromYouTube"},
              build          : Builds,
              fails          : {{}, {"page"}, {"caption"}} ] :
        /\ p.tracks = <<>> => p.timedtext = "absent" /\ p.rawTracks # "found"
        /\ p.videoDetails => p.playerResponse = "found" }

NoCause == ""

LocInit ==
    /\ kpc = "start"
    /\ page \in Pages
    /\ loc = [captionUrl |-> NoTrack, by |-> "none", finalVideoInfo |-> FALSE,
              ran |-> <<>>, cause |-> NoCause, text |-> <<>>]
    /\ FirstIdle /\ ErrIdle /\ CallIdle /\ LogIdle /\ RetryIdle /\ FormIdle /\ CascIdle /\ CtlIdle /\ BrwIdle

\* throw: the function ends in failure
Thrown(cause) ==
    /\ kpc' = "thrown"
    /\ loc' = [loc EXCEPT !.cause = cause]

\* The patterns without the test of captionUrl: every pattern runs
Unguarded(captionUrl) == captionUrl = captionUrl

\* if (!captionUrl) in front of patterns 2, 3 and 4
Guarded(captionUrl) == captionUrl = NoTrack

\* The first statements up to the page: appendLog (which the build of
\* utils/youtubeUtils.ts declares in getSubtitlesDirectly only) and
\* axios.get of the watch page
FetchPage ==
    /\ kpc = "start"
    /\ IF page.fn = "getSubtitlesFromYouTube" /\ page.build = "youtubeUtils"
       THEN Thrown("appendLog")
       ELSE IF "page" \in page.fails THEN Thrown("page")
       ELSE kpc' = "pattern1" /\ UNCHANGED loc
    /\ UNCHANGED <<page, besidesLoc>>

\* Pattern 1: JSON.parse of ytInitialPlayerResponse inside try/catch, the
\* track of the language or else of "en", and the video information
Pattern1 ==
    /\ kpc = "pattern1"
    /\ kpc' = "pattern2"
    /\ loc' = IF page.playerResponse = "found"
                 /\ FindTrack(page.tracks, page.language) # NoTrack
              THEN [loc EXCEPT !.captionUrl = FindTrack(page.tracks, page.language),
                               !.by = "pattern1",
                               !.finalVideoInfo = page.videoDetails,
                               !.ran = Append(@, "pattern1")]
              ELSE [loc EXCEPT !.ran = Append(@, "pattern1")]
    /\ UNCHANGED <<page, besidesLoc>>

\* Pattern 2: ytInitialData, JSON.parse inside try/catch; it logs what it
\* finds and sets nothing
Pattern2 ==
    /\ kpc = "pattern2"
    /\ kpc' = "pattern3"
    /\ loc' = IF Guarded(loc.captionUrl)
              THEN [loc EXCEPT !.ran = Append(@, "pattern2")]
              ELSE loc
    /\ UNCHANGED <<page, besidesLoc>>

\* Pattern 3: "captionTracks":[...] cut out by a regular expression,
\* JSON.parse inside try/catch, the track of the language or else of "en"
Pattern3 ==
    /\ kpc = "pattern3"
    /\ kpc' = "pattern4"
    /\ loc' = IF ~Guarded(loc.captionUrl) THEN loc
              ELSE IF page.rawTracks = "found"
                      /\ FindTrack(page.tracks, page.language) # NoTrack
              THEN [loc EXCEPT !.captionUrl = FindTrack(page.tracks, page.language),
                               !.by = "pattern3",
                               !.ran = Append(@, "pattern3")]
              ELSE [loc EXCEPT !.ran = Append(@, "pattern3")]
    /\ UNCHANGED <<page, besidesLoc>>

\* Pattern 4: the first URL with "timedtext" near a keyword
Pattern4 ==
    /\ kpc = "pattern4"
    /\ kpc' = "located"
    /\ loc' = IF ~Guarded(loc.captionUrl) THEN loc
              ELSE IF page.timedtext # "absent"
              THEN [loc EXCEPT !.captionUrl = page.tracks[1],
                               !.by = "pattern4",
                               !.ran = Append(@, "pattern4")]
              ELSE [loc EXCEPT !.ran = Append(@, "pattern4")]
    /\ UNCHANGED <<page, besidesLoc>>

\* if (!captionUrl) throw new Error(`Could not find captions for video`),
\* else axios.get(captionUrl)
Download ==
    /\ kpc = "located"
    /\ IF loc.captionUrl = NoTrack THEN Thrown("location")
       ELSE IF "caption" \in page.fails
               \/ (loc.by = "pattern4" /\ page.timedtext = "dead")
       THEN Thrown("download")
       ELSE kpc' = "downloaded" /\ UNCHANGED loc
    /\ UNCHANGED <<page, besidesLoc>>

\* parseSubtitles, the text joined by line breaks, and step 6:
\* finalVideoInfo || extractVideoInfo(html, playerResponseData, appendLog),
\* where the build of utils/youtubeUtils.ts declares no playerResponseData
Finish ==
    /\ kpc = "downloaded"
    /\ IF ~loc.finalVideoInfo /\ page.build = "youtubeUtils"
       THEN Thrown("videoInfo")
       ELSE /\ kpc' = "returned"
            /\ loc' = [loc EXCEPT !.text =
                   Join(TextsOf(ParseSubtitles(TrackDocument(loc.captionUrl))), <<"\n">>)]
    /\ UNCHANGED <<page, besidesLoc>>

LocNext ==
    \/ FetchPage
    \/ Pattern1
    \/ Pattern2
    \/ Pattern3
    \/ Pattern4
    \/ Download
    \/ Finish

SpecLocate == LocInit /\ [][LocNext]_vars

\* C17: the extractor ends in failure only when the page fetch, the track
\* location or the caption download fails, and a return carries the parsed
\* text of the caption document that was located.
C17_FailsOnlyOnFetchLocateDownload ==
    /\ kpc = "thrown" => loc.cause \in {"page", "location", "download"}
    /\ kpc = "returned" =>
          loc.text = Join(TextsOf(ParseSubtitles(TrackDocument(loc.captionUrl))), <<"\n">>)

\* The patterns are over
PatternsDone ==
    \/ kpc \in {"located", "downloaded", "returned"}
    \/ kpc = "thrown" /\ loc.cause \in {"location", "download", "videoInfo"}

\* C18: the patterns run in order, the structured one first; a pattern
\* runs only while no caption URL has been produced, so the URL of an
\* earlier pattern is never replaced; and when the structured pattern
\* produced none, a JSON parse error included, the raw pattern does run.
C18_StrategyOrder ==
    /\ loc.ran \in { <<>>, <<"pattern1">>, <<"pattern1", "pattern2">>,
                     <<"pattern1", "pattern2", "pattern3">>,
                     <<"pattern1", "pattern2", "pattern3", "pattern4">> }
    /\ loc.by = "pattern1" => loc.ran = <<"pattern1">>
    /\ loc.by = "pattern3" => loc.ran = <<"pattern1", "pattern2", "pattern3">>
    /\ (PatternsDone /\ loc.by # "pattern1") => "pattern3" \in Range(loc.ran)

\* A page whose player response is rejected by JSON.parse and whose raw
\* captionTracks give the URL, with the captions returned
C18_Witness ==
    /\ kpc = "returned"
    /\ page.playerResponse = "broken"
    /\ loc.by = "pattern3"


(***************************************************************************)
(* Caption documents with missing or unparsable timing attributes           *)
(***************************************************************************)
MaxTimed == 2

\* An attribute of a <text> element: a number, absent, or a value that
\* parseFloat does not read as a number
Timings(n) ==
    { [kind |-> "number", value |-> n], [kind |-> "missing", value |-> n],
      [kind |-> "unparsable", value |-> n] }

TimedElements ==
    [start : Timings(61), dur : Timings(2), content : {<<"H","i">>, <<"y","o">>}]

TimedDocuments ==
    UNION {[1..n -> TimedElements] : n \in 0..MaxTimed}

\* name="value" as the document writes the attribute
RenderAttribute(name, t) ==
    IF t.kind = "missing" THEN <<>>
    ELSE <<" ">> \o name \o <<"=","\"">>
             \o (IF t.kind = "number" THEN Decimal(t.value) ELSE <<"a","b","c">>)
             \o <<"\"">>

RenderTimedElement(e) ==
    TextOpen \o RenderAttribute(<<"s","t","a","r","t">>, e.start)
        \o RenderAttribute(<<"d","u","r">>, e.dur) \o <<">">>
        \o e.content \o TextClose

RECURSIVE RenderTimedElements(_)
RenderTimedElements(es) ==
    IF es = <<>> THEN <<>>
    ELSE RenderTimedElement(Head(es)) \o RenderTimedElements(Tail(es))

TimingInit ==
    /\ ppc = "start"
    /\ elements \in TimedDocuments
    /\ xmlData = <<"<","t","r","a","n","s","c","r","i","p","t",">">>
                    \o RenderTimedElements(elements)
                    \o <<"<","/","t","r","a","n","s","c","r","i","p","t",">">>
    /\ segments = <<>>
    /\ parser = "none"
    /\ UrlIdle /\ TextIdle /\ ReqIdle /\ MoreIdle

\* The parsers and enhanceSubtitleItems over these documents
SpecTiming == TimingInit /\ [][ParseNext]_vars

WellTimed(e) == e.start.kind = "number" /\ e.dur.kind = "number"

\* Segment sg says what the well-timed element e says
SegmentOfTimed(sg, e) ==
    /\ sg.text = e.content
    /\ parser = "regex" => sg.start = e.start.value /\ sg.duration = e.dur.value
    /\ parser = "dom" => /\ sg.start = Decimal(e.start.value)
                         /\ sg.dur = Decimal(e.dur.value)
    /\ ppc = "enhanced" => sg.end = e.start.value + e.dur.value

\* C20: the segments returned are those of the elements whose start and
\* dur are both present and numbers, in document order and with the times
\* the elements state; every other element is dropped, so no segment has a
\* NaN or an invented start, duration or end.
C20_BadTimingDropped ==
    ppc \in {"parsed", "enhanced"} =>
        /\ Len(segments) = Len(SelectSeq(elements, WellTimed))
        /\ \A i \in 1..Len(segments) :
               SegmentOfTimed(segments[i], SelectSeq(elements, WellTimed)[i])


(***************************************************************************)
(* The other video-ID extractors                                            *)
(***************************************************************************)
Scheme == <<"h","t","t","p","s",":","/","/">>

\* urlObj.hostname of new URL(url): what stands between the scheme and the
\* first /, ? or #
Hostname(s) == RunOutside(Drop(s, Len(Scheme) + 1), {"/", "?", "#"})

\* urlObj.pathname
Pathname(s) ==
    LET p == RunOutside(Drop(s, Len(Scheme) + Len(Hostname(s)) + 1), {"?", "#"})
    IN  IF p = <<>> THEN <<"/">> ELSE p

\* urlObj.search without its "?"
Search(s) ==
    LET at == Len(Scheme) + Len(Hostname(s))
                 + Len(RunOutside(Drop(s, Len(Scheme) + Len(Hostname(s)) + 1), {"?", "#"}))
                 + 1
    IN  IF at <= Len(s) /\ s[at] = "?" THEN RunOutside(Drop(s, at + 1), {"#"})
        ELSE <<>>

\* searchParams.get(name): the value of the first parameter of that name,
\* Null when there is none
RECURSIVE SearchParamsGet(_, _)
SearchParamsGet(q, name) ==
    IF q = <<>> THEN Null
    ELSE LET pair == RunOutside(q, {"&"})
         IN  IF RunOutside(pair, {"="}) = name
             THEN Drop(pair, Len(name) + 2)
             ELSE SearchParamsGet(Drop(q, Len(pair) + 2), name)

\* The extractVideoId that parses the URL: new URL(url) throws for a text
\* without a scheme or with a space in its host, and the catch returns
\* null; a youtube.com host gives the v parameter, youtu.be the path
\* without its first character
ExtractVideoId_URL(s) ==
    IF ~HasAt(s, 1, Scheme) \/ Hostname(s) = <<>> \/ " " \in Range(Hostname(s))
    THEN Null
    ELSE IF Find(Hostname(s), <<"y","o","u","t","u","b","e",".","c","o","m">>, 1) > 0
    THEN SearchParamsGet(Search(s), <<"v">>)
    ELSE IF Hostname(s) = <<"y","o","u","t","u",".","b","e">>
    THEN Drop(Pathname(s), 2)
    ELSE Null

Extractors == {"nest", "nestUrl", "netlify"}

\* The extractVideoId of the NestJS service with the pattern of the
\* Express one
ExtractNest ==
    /\ upc = "start"
    /\ videoID' = ExtractVideoID(url)
    /\ upc' = "nest"
    /\ UNCHANGED <<input, url, textVars, parseVars, reqVars, moreVars>>

ExtractNestUrl ==
    /\ upc = "start"
    /\ videoID' = ExtractVideoId_URL(url)
    /\ upc' = "nestUrl"
    /\ UNCHANGED <<input, url, textVars, parseVars, reqVars, moreVars>>

\* const videoId = videoIdMatch && videoIdMatch[1] of the Netlify handler
ExtractNetlify ==
    /\ upc = "start"
    /\ videoID' = NetlifyVideoId(url)
    /\ upc' = "netlify"
    /\ UNCHANGED <<input, url, textVars, parseVars, reqVars, moreVars>>

ExtractorsNext ==
    \/ Extract
    \/ ExtractNest
    \/ ExtractNestUrl
    \/ ExtractNetlify

SpecExtractors == UrlInit /\ [][ExtractorsNext]_vars

\* if (!videoId): null and the empty string reject the request
Rejected(id) == id = Null \/ id = <<>>

\* C21: whichever extractor ran, what it returned is an 11-character token
\* or else a value on which the request is rejected as an invalid URL.
C21_OnlyElevenCharacters ==
    upc \in Extractors \cup {"done"} =>
        (Rejected(videoID) \/ Len(videoID) = VideoIdLength)


(***************************************************************************)
(* The URL form of the front end and the application store                  *)
(***************************************************************************)
MaxSubmits == 2

\* The three versions of the form: the one that retries with "en" after any
\* error, the one that retries after a captions-not-found error of a "ko"
\* request, and the one that awaits mutateAsync and does not retry
FormVariants == {"part_018", "part_017", "UrlForm.tsx"}

FormLanguages == {"ko", "en"}

\* form.callbacks: whether useSubtitles hands the onSuccess and onError it is
\* called with to useMutation.  The useSubtitles of useSubtitles.ts takes no
\* parameter, so with it the callbacks of part_017 and part_018 never run;
\* UrlForm.tsx passes none and awaits mutateAsync.

\* What the user can type
FormUrls == {WatchUrl, NotAUrl}

\* The initial state of the store; isDarkMode comes from the system
InitialStore(dark) ==
    [ isDarkMode    |-> dark,
      url           |-> <<>>,
      language      |-> "ko",
      subtitleText  |-> <<>>,
      subtitleItems |-> <<>>,
      videoId       |-> Null,
      videoInfo     |-> NoVideoInfo,
      isLoading     |-> FALSE,
      error         |-> NoMessage,
      isSimplified  |-> FALSE,
      isModalOpen   |-> FALSE ]

\* A resetState that puts the language back as well
ResetState_WithLanguage(s) ==
    [s EXCEPT !.url = <<>>, !.subtitleText = <<>>, !.subtitleItems = <<>>,
              !.videoId = Null, !.videoInfo = NoVideoInfo, !.error = NoMessage,
              !.isSimplified = FALSE, !.isModalOpen = FALSE, !.language = "ko"]

\* resetState
ResetState(s) ==
    [s EXCEPT !.url = <<>>, !.subtitleText = <<>>, !.subtitleItems = <<>>,
              !.videoId = Null, !.videoInfo = NoVideoInfo, !.error = NoMessage,
              !.isSimplified = FALSE, !.isModalOpen = FALSE]

\* A validation that lets every URL through
AnyUrlIsValid(u) == u = u

\* isValidYoutubeUrl, validateYoutubeUrl: !!extractVideoID(url)
IsValidYoutubeUrl(u) == ExtractVideoID(u) # Null

\* A submit button that is disabled for an empty URL only
SubmitDisabled_EmptyOnly(isPending, u) == u = <<>>

\* disabled={isPending || !url} of the submit button
SubmitDisabled(isPending, u) == isPending \/ u = <<>>

\* An onError that retries whatever the language was
RetriesAlways(variant, language, kind) == TRUE

\* onError: whether the failed request is sent again with "en"
RetriesWithEn(variant, language, kind) ==
    CASE variant = "part_018" -> language # "en"
      [] variant = "part_017" -> language = "ko" /\ kind = "notFound"
      [] OTHER -> FALSE

\* isPending of the mutation the form observes: the last one started
IsPending == \E r \in inflight : r.n = form.started

\* A request as mutate sends it
Mutation(n, u, language) == [n |-> n, url |-> u, language |-> language]

Step(op, before, by) == [op |-> op, before |-> before, by |-> by]

\* What onSuccess writes for the result of a request
WithResult(s, r) ==
    [s EXCEPT !.videoId = VideoId,
              !.videoInfo = [title |-> RealTitle, channelName |-> RealChannel,
                             thumbnailUrl |-> ThumbnailOf(VideoId),
                             videoId |-> VideoId],
              !.subtitleText = <<"captions", r.language>>,
              !.subtitleItems = <<r.language>>]

FormInit ==
    /\ form \in [variant : FormVariants, callbacks : BOOLEAN, url : {<<>>},
                 language : {"ko"}, submits : {0}, started : {0}]
    /\ form.variant = "UrlForm.tsx" => form.callbacks
    /\ store \in {InitialStore(dark) : dark \in BOOLEAN}
    /\ inflight = {}
    /\ sent = <<>>
    /\ step = Step("none", store, 0)
    /\ FirstIdle /\ ErrIdle /\ CallIdle /\ LogIdle /\ RetryIdle /\ LocIdle /\ CascIdle /\ CtlIdle /\ BrwIdle

\* onChange of the input, disabled while a request is pending
SetUrl ==
    /\ ~IsPending
    /\ \E u \in FormUrls : form' = [form EXCEPT !.url = u]
    /\ step' = Step("setUrl", store, 0)
    /\ UNCHANGED <<store, inflight, sent, besidesForm>>

\* handleLanguageChange (setLanguage alone in UrlForm.tsx), disabled while
\* a request is pending
HandleLanguageChange ==
    /\ ~IsPending
    /\ \E l \in FormLanguages :
          /\ form' = [form EXCEPT !.language = l]
          /\ store' = IF form.variant = "UrlForm.tsx" THEN store
                      ELSE [store EXCEPT !.language = l]
    /\ step' = Step("handleLanguageChange", store', 0)
    /\ UNCHANGED <<inflight, sent, besidesForm>>

\* handleSubmit: an invalid URL gives a toast and nothing else; a valid one
\* resetState and then mutate({ url, language })
HandleSubmit ==
    /\ ~SubmitDisabled(IsPending, form.url)
    /\ form.submits < MaxSubmits
    /\ IF ~IsValidYoutubeUrl(form.url)
       THEN /\ form' = [form EXCEPT !.submits = @ + 1]
            /\ step' = Step("handleSubmit invalid", store, 0)
            /\ UNCHANGED <<store, inflight, sent>>
       ELSE /\ form' = [form EXCEPT !.submits = @ + 1, !.started = @ + 1]
            /\ store' = ResetState(store)
            /\ inflight' = inflight \cup
                   {Mutation(form.started + 1, form.url, form.language)}
            /\ sent' = <<Mutation(form.started + 1, form.url, form.language)>>
            /\ step' = Step("handleSubmit", store, form.started + 1)
    /\ UNCHANGED besidesForm

\* onSuccess (the code after await mutateAsync in UrlForm.tsx): the result
\* is written to the store when result.success, else a toast
OnSuccess ==
    \E r \in inflight, success \in BOOLEAN :
        /\ form.callbacks
        /\ inflight' = inflight \ {r}
        /\ store' = IF success THEN WithResult(store, r) ELSE store
        /\ step' = Step(IF success THEN "onSuccess" ELSE "onSuccess failed",
                        store', r.n)
        /\ UNCHANGED <<form, sent, besidesForm>>

\* onError (the catch in UrlForm.tsx): the retry with "en", or a toast
OnError ==
    \E r \in inflight, kind \in {"notFound", "network"} :
        /\ form.callbacks
        /\ IF RetriesWithEn(form.variant, r.language, kind)
           THEN /\ form' = [form EXCEPT !.language = "en", !.started = @ + 1]
                /\ store' = [store EXCEPT !.language = "en"]
                /\ inflight' = (inflight \ {r}) \cup
                       {Mutation(form.started + 1, r.url, "en")}
                /\ sent' = Append(sent, Mutation(form.started + 1, r.url, "en"))
           ELSE /\ inflight' = inflight \ {r}
                /\ UNCHANGED <<form, store, sent>>
        /\ step' = Step("onError", store', r.n)
        /\ UNCHANGED besidesForm

\* A request settles and no callback was handed to useMutation
Settled ==
    \E r \in inflight :
        /\ ~form.callbacks
        /\ inflight' = inflight \ {r}
        /\ step' = Step("settled", store, r.n)
        /\ UNCHANGED <<form, store, sent, besidesForm>>

\* The other writers of the store: toggleDarkMode, setUrl, setError,
\* setIsLoading, toggleSimplified, setIsModalOpen
StoreMethod ==
    /\ \E s \in { [store EXCEPT !.isDarkMode = ~@],
                  [store EXCEPT !.url = IF @ = <<>> THEN WatchUrl ELSE <<>>],
                  [store EXCEPT !.error = IF @ = NoMessage THEN "error"
                                          ELSE NoMessage],
                  [store EXCEPT !.isLoading = ~@],
                  [store EXCEPT !.isSimplified = ~@],
                  [store EXCEPT !.isModalOpen = ~@] } : store' = s
    /\ step' = Step("store", store', 0)
    /\ UNCHANGED <<form, inflight, sent, besidesForm>>

FormNext ==
    \/ SetUrl
    \/ HandleLanguageChange
    \/ HandleSubmit
    \/ OnSuccess
    \/ OnError
    \/ Settled
    \/ StoreMethod

SpecForm == FormInit /\ [][FormNext]_vars


\* C22: for one submission the form sends the original request and at most
\* one retry, the retry has language "en" and follows a request whose
\* language was not "en"; so never more than two requests per submission.
C22_AtMostOneRetryWithEn ==
    /\ Len(sent) <= 2
    /\ Len(sent) = 2 => (sent[1].language # "en" /\ sent[2].language = "en"
                         /\ sent[2].url = sent[1].url)

\* The retry with "en" has failed as well, and nothing more was sent
C22_Witness ==
    /\ Len(sent) = 2
    /\ step.op = "onError"
    /\ step.by = sent[2].n
    /\ inflight = {}


\* C28: a submission of a URL from which no video ID can be extracted sends
\* no request and leaves the store as it was; a submission of a valid URL
\* calls resetState and sends exactly one request.
C28_InvalidSubmitChangesNothing ==
    [][ form'.submits # form.submits =>
          IF ExtractVideoID(form.url) = Null
          THEN /\ store' = store
               /\ inflight' = inflight
               /\ sent' = sent
               /\ form'.started = form.started
          ELSE /\ store'.subtitleText = <<>> /\ store'.subtitleItems = <<>>
               /\ store'.videoId = Null /\ store'.videoInfo = NoVideoInfo
               /\ form'.started = form.started + 1
               /\ Len(sent') = 1
               /\ inflight' = inflight \cup {sent'[1]}
               /\ sent'[1] \notin inflight ]_vars

\* An invalid URL was submitted while the subtitles of an earlier request
\* were shown, and they still are
C28_Witness ==
    /\ step.op = "handleSubmit invalid"
    /\ store.subtitleText # <<>>
    /\ store.videoId = VideoId


\* C29: resetState puts url, subtitleText, subtitleItems, videoId,
\* videoInfo, error, isSimplified and isModalOpen back to their initial
\* values and leaves language, isDarkMode and isLoading as they were.
C29_ResetStateFrame ==
    step.op = "handleSubmit" =>
        /\ store.url = <<>>
        /\ store.subtitleText = <<>>
        /\ store.subtitleItems = <<>>
        /\ store.videoId = Null
        /\ store.videoInfo = NoVideoInfo
        /\ store.error = NoMessage
        /\ ~store.isSimplified
        /\ ~store.isModalOpen
        /\ store.language = step.before.language
        /\ store.isDarkMode = step.before.isDarkMode
        /\ store.isLoading = step.before.isLoading

\* resetState ran on a store in which every field it resets and every
\* field it keeps was away from its initial value
C29_Witness ==
    /\ step.op = "handleSubmit"
    /\ step.before.url # <<>>
    /\ step.before.subtitleText # <<>>
    /\ step.before.subtitleItems # <<>>
    /\ step.before.videoId # Null
    /\ step.before.videoInfo # NoVideoInfo
    /\ step.before.error # NoMessage
    /\ step.before.isSimplified
    /\ step.before.isModalOpen
    /\ step.before.language = "en"
    /\ step.before.isDarkMode # InitialStore(FALSE).isDarkMode
    /\ step.before.isLoading


\* C30: at most one request of the form is in flight, it is the one started
\* last, and the store's subtitle fields are written only by the success of
\* the request started last.
C30_OneRequestInFlight ==
    /\ Cardinality(inflight) <= 1
    /\ \A r \in inflight : r.n = form.started
    /\ step.op = "onSuccess" => step.by = form.started

\* The retry with "en", started when the first request had failed, has
\* succeeded and written the store
C30_Witness ==
    /\ step.op = "onSuccess"
    /\ Len(sent) = 2
    /\ step.by = sent[2].n
    /\ store.subtitleItems = <<"en">>
    /\ inflight = {}


\* The messages and the status with which a handler reports that the video
\* has no captions
NotFoundMessages ==
    {"Could not find captions for video", "Cannot get captions",
     "No captions, and no English ones either"}

\* C23: when the request for the watch page or for the caption document
\* fails (a timeout or a non-2xx answer) and the video has the track asked
\* for, the failure is not reported as captions-not-found.
C23_NetworkErrorNotAsNotFound ==
    (AnsweredOverHttp /\ AsksForVideo
        /\ youtube.fails \cap {"page", "caption"} # {}
        /\ HasTrack(request.language)
        /\ ~response.success)
    => (response.message \notin NotFoundMessages /\ response.status # 404)


(***************************************************************************)
(* enhanceSubtitleItems and formatTime over segments of many start times    *)
(***************************************************************************)
\* Start times around the minute, ten minutes, the hour and a hundred
\* minutes, in whole seconds
FormatStarts == {0, 5, 59, 60, 61, 600, 3599, 3600, 5999, 6000}

FormatItems ==
    [start : FormatStarts, dur : Durations, content : {<<"H","i">>, <<"y","o">>}]

\* The segments to enhance: up to MaxTimed items { text, start, dur } with
\* the numbers written as the parser leaves them, as strings
FormatInit ==
    /\ ppc = "parsed"
    /\ parser = "dom"
    /\ elements \in UNION {[1..n -> FormatItems] : n \in 0..MaxTimed}
    /\ segments = [i \in 1..Len(elements) |->
                      [text  |-> elements[i].content,
                       start |-> Decimal(elements[i].start),
                       dur   |-> Decimal(elements[i].dur)]]
    /\ xmlData = <<>>
    /\ UrlIdle /\ TextIdle /\ ReqIdle /\ MoreIdle

FormatNext == Enhance

SpecFormat == FormatInit /\ [][FormatNext]_vars

\* f is "mm:ss" for s seconds: two digits of seconds in 00..59 after the
\* colon, the minutes before it with at least two digits and no further
\* leading zero
IsMinutesAndSeconds(f, s) ==
    /\ Len(f) >= 5
    /\ f[Len(f) - 2] = ":"
    /\ \A k \in (1..Len(f)) \ {Len(f) - 2} : f[k] \in Range(DigitChar)
    /\ ParseInt(SubSeq(f, 1, Len(f) - 3)) = s \div 60
    /\ ParseInt(SubSeq(f, Len(f) - 1, Len(f))) = s % 60
    /\ ParseInt(SubSeq(f, Len(f) - 1, Len(f))) \in 0..59
    /\ Len(f) > 5 => f[1] # "0"

Strategies == <<"puppeteer", "direct", "legacy">>

\* What a utility answers.  An empty transcript (a caption document without
\* <text> elements) gives a success with the empty text.
StrategyAnswer(name, c) ==
    LET r == CASE name = "puppeteer" -> GetSubtitlesWithPuppeteer(c.y, c.language)
               [] name = "direct" -> GetSubtitlesDirectly(c.y, c.language)
               [] OTHER -> GetSubtitlesFromYouTube(c.y, c.language)
    IN  IF r.ok /\ c.blank THEN Return([r.value EXCEPT !.text = <<>>]) ELSE r

\* How a strategy ended, for the record of the strategies started
Ended(name, r) ==
    [name |-> name, threw |-> ~r.ok,
     text |-> IF r.ok THEN r.value.text ELSE <<>>]

CascInit ==
    /\ gpc = "puppeteer"
    /\ cascade \in [y : YouTubes, language : {"ko", "en", "xx"}, blank : BOOLEAN]
    /\ tried = <<>>
    /\ answer = <<>>
    /\ FirstIdle /\ ErrIdle /\ CallIdle /\ LogIdle /\ RetryIdle /\ LocIdle /\ FormIdle /\ CtlIdle /\ BrwIdle

\* One strategy: its response is returned when it has a text, else the
\* catch goes on to the strategy that follows
Try(name, onFailure) ==
    /\ gpc = name
    /\ tried' = Append(tried, Ended(name, StrategyAnswer(name, cascade)))
    /\ IF Usable(StrategyAnswer(name, cascade))
       THEN /\ answer' = Result(StrategyAnswer(name, cascade))
            /\ gpc' = "returned"
       ELSE /\ answer' = answer
            /\ gpc' = onFailure
    /\ UNCHANGED <<cascade, besidesCasc>>

TryPuppeteer == Try("puppeteer", "direct")

TryDirect == Try("direct", "legacy")

\* The legacy strategy runs inside the catch of the direct one; what it
\* throws, and its response without text, reach the outer catch
TryLegacy == Try("legacy", "caught")

\* catch (e): throw new Error(`Could not find captions for video: ${videoId}`)
OuterCatch ==
    /\ gpc = "caught"
    /\ answer' = Throw("Error", "Could not find captions for video")
    /\ gpc' = "thrown"
    /\ UNCHANGED <<cascade, tried, besidesCasc>>

CascNext == TryPuppeteer \/ TryDirect \/ TryLegacy \/ OuterCatch

SpecCascade == CascInit /\ [][CascNext]_vars

\* C25: the strategies start in the order Puppeteer, direct HTTP, legacy;
\* one starts only after the one before threw or came back without text;
\* a return is a success with a non-empty text; and a throw comes after all
\* three failed and is the one error "Could not find captions for video".
C25_CascadeOrder ==
    /\ Len(tried) <= 3
    /\ \A i \in 1..Len(tried) : tried[i].name = Strategies[i]
    /\ \A i \in 1..(Len(tried) - 1) : tried[i].threw \/ tried[i].text = <<>>
    /\ gpc = "returned" =>
          /\ answer.ok /\ answer.value.success
          /\ answer.value.text # <<>>
          /\ answer.value.text = tried[Len(tried)].text
    /\ gpc \in {"caught", "thrown"} =>
          /\ Len(tried) = 3
          /\ \A i \in 1..3 : tried[i].threw \/ tried[i].text = <<>>
    /\ gpc = "thrown" =>
          answer = Throw("Error", "Could not find captions for video")

\* All three strategies ran, the first came back with an empty text, and
\* the one error was thrown
C25_Witness ==
    /\ gpc = "thrown"
    /\ Len(tried) = 3
    /\ ~tried[1].threw
    /\ tried[1].text = <<>>


(***************************************************************************)
(* The Express controllers, one statement at a time                         *)
(***************************************************************************)
\* The getSubtitles of part_003 (with the retry of "en" in its inner
\* catch) and the two of subtitleController.ts
Controllers == {"part_003", "subtitleController.ts 18", "subtitleController.ts 102"}

\* A controller that goes on after the 400 response
AfterBadRequest_NoReturn == "calling"

\* return after res.status(400).json(...)
AfterBadRequest == "done"

\* res.status(status).json(body)
ResJson(status) == responses' = Append(responses, status)

CtlInit ==
    /\ hpc = "start"
    /\ ctl \in [controller : Controllers,
                body       : {"valid", "invalid", "none"},
                first      : {"returns", "throws"},
                info       : {"returns", "throws"},
                second     : {"returns", "throws"}]
    /\ responses = <<>>
    /\ FirstIdle /\ ErrIdle /\ CallIdle /\ LogIdle /\ RetryIdle /\ LocIdle /\ FormIdle /\ CascIdle /\ BrwIdle

\* const { url, language } = req.body and the test of the URL (of the
\* validation result at line 102); a request without a body makes the
\* destructuring throw
CtlValidate ==
    /\ hpc = "start"
    /\ IF ctl.body = "none" /\ ctl.controller # "subtitleController.ts 102"
       THEN hpc' = "catch" /\ UNCHANGED responses
       ELSE IF ctl.body # "valid"
       THEN ResJson(400) /\ hpc' = AfterBadRequest
       ELSE hpc' = "calling" /\ UNCHANGED responses
    /\ UNCHANGED <<ctl, besidesCtl>>

\* await of the service, then res.json(result); in part_003 the argument of
\* res.json awaits getVideoInfo before anything is sent
CtlCall ==
    /\ hpc = "calling"
    /\ IF ctl.first = "returns"
          /\ (ctl.controller = "part_003" => ctl.info = "returns")
       THEN ResJson(200) /\ hpc' = "done"
       ELSE /\ hpc' = IF ctl.controller = "part_003" THEN "fallback" ELSE "catch"
            /\ UNCHANGED responses
    /\ UNCHANGED <<ctl, besidesCtl>>

\* The inner catch of part_003: the service again with "en", res.json
CtlFallback ==
    /\ hpc = "fallback"
    /\ IF ctl.second = "returns" /\ ctl.info = "returns"
       THEN ResJson(200) /\ hpc' = "done"
       ELSE hpc' = "catch" /\ UNCHANGED responses
    /\ UNCHANGED <<ctl, besidesCtl>>

\* catch (error): res.status(500).json(...)
CtlCatch ==
    /\ hpc = "catch"
    /\ ResJson(500)
    /\ hpc' = "done"
    /\ UNCHANGED <<ctl, besidesCtl>>

CtlNext == CtlValidate \/ CtlCall \/ CtlFallback \/ CtlCatch

SpecCtl == CtlInit /\ [][CtlNext]_vars

\* C26: a getSubtitles of an Express controller never sends a second
\* response, and when it has returned it has sent exactly one.
C26_ExactlyOneResponse ==
    /\ Len(responses) <= 1
    /\ hpc = "done" => Len(responses) = 1

\* The fallback with "en" failed after the first attempt had failed, and
\* the one response is the 500 of the outer catch
C26_Witness ==
    /\ hpc = "done"
    /\ ctl.controller = "part_003"
    /\ ctl.first = "throws" /\ ctl.second = "throws"
    /\ responses = <<500>>


(***************************************************************************)
(* getSubtitlesWithPuppeteer and its browser                                *)
(***************************************************************************)
\* The awaited statements of the try block, in order: browser.newPage and
\* the page set-up, page.goto, page.content with the bot-detection test,
\* page.evaluate with the test of captionData.error, axios.get of the
\* caption document, parseSubtitles
PuppeteerSteps == <<"newPage", "goto", "botDetection", "evaluate", "download", "parse">>

\* No error is on its way out of the function
NoThrow == "none"

\* A function that closes the browser at the end of the try block only
ClosesOnSuccessOnly(pending) == pending = NoThrow

\* finally { await browser.close() }: whether or not an error is on its way
ClosesOn(pending) == TRUE

BrwInit ==
    /\ bpc = "launch"
    /\ browser = "none"
    /\ puppet \in [language : {"ko", "en"},
                   failAt   : Range(PuppeteerSteps) \cup {"launch", "nowhere"},
                   throws   : {"Error", "null"},
                   at       : {0},
                   pending  : {NoThrow}]
    /\ FirstIdle /\ ErrIdle /\ CallIdle /\ LogIdle /\ RetryIdle /\ LocIdle /\ FormIdle /\ CascIdle /\ CtlIdle

\* const browser = await puppeteer.launch({...}), before the try block
BrwLaunch ==
    /\ bpc = "launch"
    /\ IF puppet.failAt = "launch"
       THEN /\ bpc' = "thrown"
            /\ puppet' = [puppet EXCEPT !.pending = puppet.throws]
            /\ UNCHANGED browser
       ELSE /\ bpc' = "try"
            /\ puppet' = [puppet EXCEPT !.at = 1]
            /\ browser' = "open"
    /\ UNCHANGED besidesBrw

\* The next statement of the try block; after the last one the return
\* statement, which hands over to finally
BrwStep ==
    /\ bpc = "try"
    /\ IF puppet.failAt = PuppeteerSteps[puppet.at]
       THEN /\ bpc' = "catch"
            /\ puppet' = [puppet EXCEPT !.pending = puppet.throws]
       ELSE IF puppet.at = Len(PuppeteerSteps)
       THEN /\ bpc' = "finally"
            /\ puppet' = puppet
       ELSE /\ bpc' = "try"
            /\ puppet' = [puppet EXCEPT !.at = @ + 1]
    /\ UNCHANGED <<browser, besidesBrw>>

\* catch (error: any) { console.error(... error.message); throw error }:
\* reading message of a thrown null is a TypeError
BrwCatch ==
    /\ bpc = "catch"
    /\ puppet' = [puppet EXCEPT !.pending = IF puppet.pending = "null"
                                            THEN "TypeError" ELSE @]
    /\ bpc' = "finally"
    /\ UNCHANGED <<browser, besidesBrw>>

\* finally { await browser.close() }, and then the return or the throw
BrwFinally ==
    /\ bpc = "finally"
    /\ browser' = IF ClosesOn(puppet.pending) THEN "closed" ELSE browser
    /\ bpc' = IF puppet.pending = NoThrow THEN "returned" ELSE "thrown"
    /\ UNCHANGED <<puppet, besidesBrw>>

BrwNext == BrwLaunch \/ BrwStep \/ BrwCatch \/ BrwFinally

SpecBrowser == BrwInit /\ [][BrwNext]_vars

\* C27: when getSubtitlesWithPuppeteer has returned or thrown, no browser
\* is open: one that was launched has been closed.
C27_BrowserClosed ==
    /\ bpc \in {"returned", "thrown"} => browser # "open"
    /\ (bpc \in {"returned", "thrown"} /\ puppet.failAt # "launch")
          => browser = "closed"

\* The function threw after the download of the caption document failed,
\* and the browser it had launched is closed
C27_Witness ==
    /\ bpc = "thrown"
    /\ puppet.failAt = "download"
    /\ puppet.pending = "Error"
    /\ browser = "closed"

====
